---------------------------- MODULE Spec2Model ----------------------------
(***************************************************************************)
(* A model of arc-language/core-codegen: the AMD64 lowering engine         *)
(* (arch/amd64), the ELF64 object writer (format/elf) and the driver       *)
(* GenerateObject that joins them.                                         *)
(*                                                                         *)
(* Bytes are naturals 0..255, buffers are sequences of bytes, strings are  *)
(* sequences of character codes.  A Go pointer is the 1-based position of  *)
(* its pointee in the arena that owns it (0 is nil): a *Section is its     *)
(* position in File.Sections, a *Symbol its position in symHeap.           *)
(***************************************************************************)
EXTENDS Integers, Sequences, FiniteSets, TLC

VARIABLES
    pc,         \* position of the running driver / which call comes next
    m,          \* the IR module handed to GenerateObject
    artifact,   \* what amd64.Compile returned
    f,          \* the elf.File under construction
    symHeap,    \* the Symbol objects f.Symbols and symbolMap point to
    symbolMap,  \* GenerateObject's name -> *Symbol map
    relaBuf,    \* GenerateObject's relocation byte buffer
    relI,       \* number of artifact.Relocations already written to relaBuf
    loc,        \* GenerateObject's section pointers textSec, dataSec, relaSec
    out,        \* the Write calls the sink has received, oldest first
    mach,       \* the processor and memory running the compiled code
    ret         \* what earlier calls of GenerateObject returned

vars == <<pc, m, artifact, f, symHeap, symbolMap, relaBuf, relI, loc, out,
          mach, ret>>

NIL == 0

-----------------------------------------------------------------------------
(* Little-endian encoding and decoding (encoding/binary, encodeUint64).    *)

RECURSIVE LE(_, _)
LE(v, n) == IF n = 0 THEN <<>> ELSE <<v % 256>> \o LE(v \div 256, n - 1)

Zeros(n) == [i \in 1..n |-> 0]

U8At(b, off) == b[off + 1]
U16At(b, off) == b[off + 1] + 256 * b[off + 2]
U32At(b, off) == b[off + 1] + 256 * b[off + 2] + 65536 * b[off + 3]
                   + 16777216 * b[off + 4]

Slice(b, off, n) == SubSeq(b, off + 1, off + n)

RECURSIVE Flatten(_)
Flatten(ss) == IF ss = <<>> THEN <<>> ELSE Head(ss) \o Flatten(Tail(ss))

-----------------------------------------------------------------------------
(* format/elf constants.                                                   *)

ELFCLASS64 == 2
ELFDATA2LSB == 1
EV_CURRENT == 1
ET_REL == 1
EM_X86_64 == 62
SHT_NULL == 0
SHT_PROGBITS == 1
SHT_SYMTAB == 2
SHT_STRTAB == 3
SHT_RELA == 4
SHF_WRITE == 1
SHF_ALLOC == 2
SHF_EXECINSTR == 4
STB_LOCAL == 0
STB_GLOBAL == 1
STB_WEAK == 2
STT_NOTYPE == 0
STT_OBJECT == 1
STT_FUNC == 2
STT_SECTION == 3
STT_FILE == 4
STV_DEFAULT == 0
SHN_UNDEF == 0
R_X86_64_PC32 == 2
R_X86_64_PLT32 == 4

(* Section names as character codes.                                       *)
N_text == <<46, 116, 101, 120, 116>>
N_data == <<46, 100, 97, 116, 97>>
N_rela_text == <<46, 114, 101, 108, 97, 46, 116, 101, 120, 116>>
N_shstrtab == <<46, 115, 104, 115, 116, 114, 116, 97, 98>>
N_strtab == <<46, 115, 116, 114, 116, 97, 98>>
N_symtab == <<46, 115, 121, 109, 116, 97, 98>>

-----------------------------------------------------------------------------
(* StringTable.                                                            *)

NewStringTable == [Data |-> <<0>>, strs |-> <<>>]

(* StringTable.Add that does not look the string up first.                 *)
StrAdd_noLookup(st, s) ==
    IF s = <<>> THEN [st |-> st, idx |-> 0]
    ELSE [st |-> [Data |-> st.Data \o s \o <<0>>,
                  strs |-> (s :> Len(st.Data)) @@ st.strs],
          idx |-> Len(st.Data)]

(* StringTable.Add: the table after the call and the offset returned.      *)
StrAdd(st, s) ==
    IF s = <<>> THEN [st |-> st, idx |-> 0]
    ELSE IF s \in DOMAIN st.strs THEN [st |-> st, idx |-> st.strs[s]]
    ELSE LET idx == Len(st.Data)
         IN  [st |-> [Data |-> st.Data \o s \o <<0>>,
                      strs |-> (s :> idx) @@ st.strs],
              idx |-> idx]

-----------------------------------------------------------------------------
(* File, Section, Symbol.                                                  *)

NewSection(name, typ, flags, content, index) ==
    [Name |-> name, Type |-> typ, Flags |-> flags, Addr |-> 0,
     Addralign |-> 0, Entsize |-> 0, Link |-> 0, Info |-> 0,
     Content |-> content, Index |-> index, nameIdx |-> 0, offset |-> 0,
     size |-> 0]

NewFile ==
    [Sections |-> <<NewSection(<<>>, SHT_NULL, 0, <<>>, 0)>>,
     Symbols |-> <<>>,
     StrTab |-> NewStringTable,
     ShStrTab |-> NewStringTable,
     RelaSections |-> <<>>]

(* AddSection: the file after the call and the pointer returned.           *)
AddSection(fl, name, typ, flags, content) ==
    LET s == NewSection(name, typ, flags, content, Len(fl.Sections) % 65536)
    IN  [f |-> [fl EXCEPT !.Sections = Append(@, s)],
         sec |-> Len(fl.Sections) + 1]

(* AddSymbol: the file and heap after the call and the pointer returned.   *)
AddSymbol(fl, heap, name, info, section, value, size) ==
    LET sym == [Name |-> name, Info |-> info, Other |-> STV_DEFAULT,
                Section |-> section, Value |-> value, Size |-> size,
                nameIdx |-> 0, symIdx |-> -1]
        p == Len(heap) + 1
    IN  [f |-> [fl EXCEPT !.Symbols = Append(@, p)],
         heap |-> Append(heap, sym),
         sym |-> p]

MakeSymbolInfo(binding, typ) == ((binding * 16) % 256) + (typ % 16)

(* The zero Symbol WriteTo writes as entry 0.                              *)
ZeroSymbol ==
    [Name |-> <<>>, Info |-> 0, Other |-> 0, Section |-> NIL, Value |-> 0,
     Size |-> 0, nameIdx |-> 0, symIdx |-> 0]

(* writeSymbol: the 24 bytes of one Elf64_Sym.                             *)
writeSymbol(fl, sym) ==
    LET shndx == IF sym.Section # NIL THEN fl.Sections[sym.Section].Index
                 ELSE SHN_UNDEF
    IN  LE(sym.nameIdx, 4) \o <<sym.Info>> \o <<sym.Other>> \o LE(shndx, 2)
          \o LE(sym.Value, 8) \o LE(sym.Size, 8)

(* writeElfHeader that takes the second-to-last section for .shstrtab      *)
(* instead of the index it is given.                                       *)
writeElfHeader_secondToLast(fl, shoff, shstrndx) ==
    <<127, 69, 76, 70, ELFCLASS64, ELFDATA2LSB, EV_CURRENT>> \o Zeros(9)
      \o LE(ET_REL, 2) \o LE(EM_X86_64, 2) \o LE(EV_CURRENT, 4)
      \o LE(0, 8) \o LE(0, 8) \o LE(shoff, 8) \o LE(0, 4)
      \o LE(64, 2) \o LE(0, 2) \o LE(0, 2) \o LE(64, 2)
      \o LE(Len(fl.Sections) % 65536, 2) \o LE(Len(fl.Sections) - 2, 2)

(* writeElfHeader: the 64 bytes of the Elf64_Ehdr.                         *)
writeElfHeader(fl, shoff, shstrndx) ==
    <<127, 69, 76, 70, ELFCLASS64, ELFDATA2LSB, EV_CURRENT>> \o Zeros(9)
      \o LE(ET_REL, 2) \o LE(EM_X86_64, 2) \o LE(EV_CURRENT, 4)
      \o LE(0, 8) \o LE(0, 8) \o LE(shoff, 8) \o LE(0, 4)
      \o LE(64, 2) \o LE(0, 2) \o LE(0, 2) \o LE(64, 2)
      \o LE(Len(fl.Sections) % 65536, 2) \o LE(shstrndx, 2)

(* writeSectionHeader: the 64 bytes of one Elf64_Shdr.                     *)
writeSectionHeader(sec) ==
    LE(sec.nameIdx, 4) \o LE(sec.Type, 4) \o LE(sec.Flags, 8)
      \o LE(sec.Addr, 8) \o LE(sec.offset, 8) \o LE(sec.size, 8)
      \o LE(sec.Link, 4) \o LE(sec.Info, 4) \o LE(sec.Addralign, 8)
      \o LE(sec.Entsize, 8)

-----------------------------------------------------------------------------
(* File.WriteTo.                                                           *)

(* A pass whose second round takes only STB_GLOBAL symbols.               *)
RECURSIVE writeSymbolPass_dropsWeak(_, _, _, _)
writeSymbolPass_dropsWeak(fl, st, i, wantLocal) ==
    IF i > Len(fl.Symbols) THEN st
    ELSE LET p == fl.Symbols[i]
             sym == st.heap[p]
             binding == sym.Info \div 16
         IN  IF binding = (IF wantLocal THEN STB_LOCAL ELSE STB_GLOBAL)
             THEN writeSymbolPass_dropsWeak(fl,
                    [heap |-> [st.heap EXCEPT ![p].symIdx = Len(st.ordered)],
                     symBuf |-> st.symBuf \o writeSymbol(fl, sym),
                     ordered |-> Append(st.ordered, p)],
                    i + 1, wantLocal)
             ELSE writeSymbolPass_dropsWeak(fl, st, i + 1, wantLocal)

(* One pass of the symbol loops of WriteTo: every symbol of f.Symbols from *)
(* position i on whose binding is (wantLocal) or is not (~wantLocal)       *)
(* STB_LOCAL gets its symIdx, is written to symBuf and joins ordered.      *)
(* st is [heap, symBuf, ordered]; ordered starts with the null symbol.     *)
RECURSIVE writeSymbolPass(_, _, _, _)
writeSymbolPass(fl, st, i, wantLocal) ==
    IF i > Len(fl.Symbols) THEN st
    ELSE LET p == fl.Symbols[i]
             sym == st.heap[p]
             binding == sym.Info \div 16
         IN  IF (binding = STB_LOCAL) = wantLocal
             THEN writeSymbolPass(fl,
                    [heap |-> [st.heap EXCEPT ![p].symIdx = Len(st.ordered)],
                     symBuf |-> st.symBuf \o writeSymbol(fl, sym),
                     ordered |-> Append(st.ordered, p)],
                    i + 1, wantLocal)
             ELSE writeSymbolPass(fl, st, i + 1, wantLocal)

(* Step 3 of WriteTo: every section of f.RelaSections gets Link = symtab.  *)
RECURSIVE fixRelaLinks(_, _, _)
fixRelaLinks(secs, relaSecs, symtabIndex) ==
    IF relaSecs = <<>> THEN secs
    ELSE fixRelaLinks([secs EXCEPT ![Head(relaSecs)].Link = symtabIndex],
                      Tail(relaSecs), symtabIndex)

(* Step 4 of WriteTo, sections: nameIdx = ShStrTab.Add(Name), in order.    *)
RECURSIVE nameSections(_, _, _)
nameSections(secs, tab, i) ==
    IF i > Len(secs) THEN [secs |-> secs, tab |-> tab]
    ELSE LET r == StrAdd(tab, secs[i].Name)
         IN  nameSections([secs EXCEPT ![i].nameIdx = r.idx], r.st, i + 1)

(* Step 4 of WriteTo, symbols: nameIdx = StrTab.Add(Name), in f.Symbols    *)
(* order.                                                                  *)
RECURSIVE nameSymbols(_, _, _, _)
nameSymbols(symbols, heap, tab, i) ==
    IF i > Len(symbols) THEN [heap |-> heap, tab |-> tab]
    ELSE LET p == symbols[i]
             r == StrAdd(tab, heap[p].Name)
         IN  nameSymbols(symbols, [heap EXCEPT ![p].nameIdx = r.idx], r.st,
                         i + 1)

(* layoutSections that does not round the offset up to the alignment.      *)
RECURSIVE layoutSections_unaligned(_, _, _)
layoutSections_unaligned(secs, currentOffset, i) ==
    IF i > Len(secs) THEN [secs |-> secs, end |-> currentOffset]
    ELSE LET sec == secs[i]
             size == IF sec.size = 0 THEN Len(sec.Content) ELSE sec.size
         IN  layoutSections_unaligned(
                 [secs EXCEPT ![i].offset = currentOffset, ![i].size = size],
                 currentOffset + size, i + 1)

(* Step 5 of WriteTo: file offsets, starting at currentOffset.             *)
RECURSIVE layoutSections(_, _, _)
layoutSections(secs, currentOffset, i) ==
    IF i > Len(secs) THEN [secs |-> secs, end |-> currentOffset]
    ELSE LET sec == secs[i]
             aligned ==
                 IF sec.Addralign > 0 /\ currentOffset % sec.Addralign # 0
                 THEN currentOffset
                        + (sec.Addralign - (currentOffset % sec.Addralign))
                 ELSE currentOffset
             size == IF sec.size = 0 THEN Len(sec.Content) ELSE sec.size
         IN  layoutSections(
                 [secs EXCEPT ![i].offset = aligned, ![i].size = size],
                 aligned + size, i + 1)

(* Step 7 of WriteTo: the Write calls for padding and contents.            *)
RECURSIVE contentWrites(_, _, _)
contentWrites(secs, written, i) ==
    IF i > Len(secs) THEN <<>>
    ELSE LET sec == secs[i]
             pad == IF sec.offset > written
                    THEN <<Zeros(sec.offset - written)>> ELSE <<>>
             at == IF sec.offset > written THEN sec.offset ELSE written
         IN  pad \o <<sec.Content>> \o contentWrites(secs, at + sec.size, i + 1)

(* Step 7 of WriteTo again, for the sink: how many bytes it holds when the *)
(* Write call for the content of each section is made; sunk is that count  *)
(* before section i, written the loop's own counter.                       *)
RECURSIVE contentPositions(_, _, _, _)
contentPositions(secs, written, sunk, i) ==
    IF i > Len(secs) THEN <<>>
    ELSE LET sec == secs[i]
             pad == IF sec.offset > written THEN sec.offset - written ELSE 0
         IN  <<sunk + pad>>
               \o contentPositions(secs, written + pad + sec.size,
                                   sunk + pad + Len(sec.Content), i + 1)

(* WriteTo runs in the steps below.  Each step takes the locals of the     *)
(* call so far as one record w (the file f, the symbol objects heap, the   *)
(* section pointers shstrtabSec, strTabSec, symTabSec, ...) and returns    *)
(* them after the step.                                                    *)

(* 1. the string table sections, with no content yet.                      *)
WriteTo_addStringSections(fl, heap) ==
    LET a1 == AddSection(fl, N_shstrtab, SHT_STRTAB, 0, <<>>)
        a2 == AddSection(a1.f, N_strtab, SHT_STRTAB, 0, <<>>)
    IN  [f |-> [a2.f EXCEPT !.Sections[a2.sec].Addralign = 1],
         heap |-> heap, shstrtabSec |-> a1.sec, strTabSec |-> a2.sec]

(* 2a. the null symbol and the local symbols.                              *)
WriteTo_writeLocals(w) ==
    [w |-> w,
     st |-> writeSymbolPass(w.f,
              [heap |-> w.heap, symBuf |-> writeSymbol(w.f, ZeroSymbol),
               ordered |-> <<NIL>>], 1, TRUE)]

(* 2b. firstGlobal and the global symbols.                                 *)
WriteTo_writeGlobals(ws) ==
    [w |-> ws.w, firstGlobal |-> Len(ws.st.ordered),
     st |-> writeSymbolPass(ws.w.f, ws.st, 1, FALSE)]

(* 2c. the .symtab section.                                                *)
WriteTo_addSymtab(wg) ==
    LET a3 == AddSection(wg.w.f, N_symtab, SHT_SYMTAB, 0, wg.st.symBuf)
    IN  [f |-> [a3.f EXCEPT
                  !.Sections[a3.sec].Link =
                      wg.w.f.Sections[wg.w.strTabSec].Index,
                  !.Sections[a3.sec].Info = wg.firstGlobal,
                  !.Sections[a3.sec].Addralign = 8,
                  !.Sections[a3.sec].Entsize = 24],
         heap |-> wg.st.heap, shstrtabSec |-> wg.w.shstrtabSec,
         strTabSec |-> wg.w.strTabSec, symTabSec |-> a3.sec]

(* 3. relocation section links.                                            *)
WriteTo_fixRelaLinks(w) ==
    [w EXCEPT !.f.Sections =
        fixRelaLinks(w.f.Sections, w.f.RelaSections,
                     w.f.Sections[w.symTabSec].Index)]

(* 4a. section names.                                                      *)
WriteTo_nameSections(w) ==
    LET n == nameSections(w.f.Sections, w.f.ShStrTab, 1)
    IN  [w EXCEPT !.f.Sections = n.secs, !.f.ShStrTab = n.tab]

(* 4b. symbol names.                                                       *)
WriteTo_nameSymbols(w) ==
    LET n == nameSymbols(w.f.Symbols, w.heap, w.f.StrTab, 1)
    IN  [w EXCEPT !.heap = n.heap, !.f.StrTab = n.tab]

(* 4c. the contents of the string table sections.                          *)
WriteTo_fillStringSections(w) ==
    [w EXCEPT
       !.f.Sections[w.shstrtabSec].Content = w.f.ShStrTab.Data,
       !.f.Sections[w.shstrtabSec].size = Len(w.f.ShStrTab.Data),
       !.f.Sections[w.strTabSec].Content = w.f.StrTab.Data,
       !.f.Sections[w.strTabSec].size = Len(w.f.StrTab.Data)]

(* 5. section offsets; shdrOffset is where the section headers go.         *)
WriteTo_layout(w) ==
    LET lay == layoutSections(w.f.Sections, 64, 1)
    IN  [f |-> [w.f EXCEPT !.Sections = lay.secs], heap |-> w.heap,
         shstrtabSec |-> w.shstrtabSec, shdrOffset |-> lay.end]

(* A sink that goes on after the Write call that failed and reports no     *)
(* error.                                                                  *)
sinkWrites_keepsWriting(calls, failAt) ==
    [writes |-> calls, err |-> ""]

(* The Write calls of steps 6 to 8 are made in order on the sink w, each   *)
(* followed by "if err != nil { return err }".  calls are the calls a      *)
(* sink that accepts everything receives; the sink returns SinkError from  *)
(* its failAt-th call (0: from none).  The calls made, and the error       *)
(* WriteTo returns.                                                        *)
sinkWrites(calls, failAt) ==
    IF failAt \in 1..Len(calls)
    THEN [writes |-> SubSeq(calls, 1, failAt), err |-> "sink"]
    ELSE [writes |-> calls, err |-> ""]

(* 6. to 8. the Write calls: header, contents, section headers.            *)
WriteTo_emit(w, failAt) ==
    LET r == sinkWrites(
               <<writeElfHeader(w.f, w.shdrOffset,
                                w.f.Sections[w.shstrtabSec].Index)>>
                 \o contentWrites(w.f.Sections, 64, 1)
                 \o [i \in 1..Len(w.f.Sections) |->
                       writeSectionHeader(w.f.Sections[i])], failAt)
    IN  [f |-> w.f, heap |-> w.heap, writes |-> r.writes, err |-> r.err]

(* WriteTo on file fl with symbol objects heap, on a sink that fails at    *)
(* its failAt-th Write call: the file and the symbol objects after the     *)
(* call, the Write calls made on the sink, and the error returned.         *)
WriteToSink(fl, heap, failAt) ==
    WriteTo_emit(WriteTo_layout(WriteTo_fillStringSections(
      WriteTo_nameSymbols(WriteTo_nameSections(WriteTo_fixRelaLinks(
        WriteTo_addSymtab(WriteTo_writeGlobals(WriteTo_writeLocals(
          WriteTo_addStringSections(fl, heap))))))))), failAt)

(* WriteTo on a sink that accepts every write (a bytes.Buffer).            *)
WriteTo(fl, heap) == WriteToSink(fl, heap, 0)

-----------------------------------------------------------------------------
(* Reading the written file back (what a linker sees).                     *)

OutBytes == Flatten(out)

E_shoff(b) == U32At(b, 40)
E_shnum(b) == U16At(b, 60)
E_shstrndx(b) == U16At(b, 62)

(* Byte offset of section header k, and its fields.                        *)
ShdrAt(b, k) == E_shoff(b) + 64 * k
Sh_name(b, k) == U32At(b, ShdrAt(b, k))
Sh_type(b, k) == U32At(b, ShdrAt(b, k) + 4)
Sh_offset(b, k) == U32At(b, ShdrAt(b, k) + 24)
Sh_size(b, k) == U32At(b, ShdrAt(b, k) + 32)
Sh_link(b, k) == U32At(b, ShdrAt(b, k) + 40)
Sh_info(b, k) == U32At(b, ShdrAt(b, k) + 44)
Sh_entsize(b, k) == U32At(b, ShdrAt(b, k) + 56)

(* Section indices of a given type.                                        *)
SectionsOfType(b, typ) == {k \in 0..(E_shnum(b) - 1) : Sh_type(b, k) = typ}

(* The NUL-terminated string at offset off of string table section k.      *)
RECURSIVE CStringAt(_, _)
CStringAt(b, pos) ==
    IF pos >= Len(b) \/ b[pos + 1] = 0 THEN <<>>
    ELSE <<b[pos + 1]>> \o CStringAt(b, pos + 1)

(* Entry j of the symbol table held by section k.                          *)
SymAt(b, k, j) == Sh_offset(b, k) + 24 * j
St_name(b, k, j) == U32At(b, SymAt(b, k, j))
St_info(b, k, j) == U8At(b, SymAt(b, k, j) + 4)
St_shndx(b, k, j) == U16At(b, SymAt(b, k, j) + 6)
St_value(b, k, j) == U32At(b, SymAt(b, k, j) + 8)
St_size(b, k, j) == U32At(b, SymAt(b, k, j) + 16)

-----------------------------------------------------------------------------
(* The elf package used directly: NewFile, then AddSection and AddSymbol   *)
(* calls, then one WriteTo.                                                *)

MaxSymbols == 3
MaxUserSections == 1

SymbolNames == {<<97>>, <<98, 99>>}
SectionContents == {<<144, 195>>}

IdleDriver ==
    /\ m = <<>> /\ artifact = <<>> /\ symbolMap = <<>> /\ relaBuf = <<>>
    /\ relI = 0 /\ loc = <<>> /\ mach = <<>>
    /\ ret = <<>>

InitFile ==
    /\ pc = "file_build"
    /\ f = NewFile
    /\ symHeap = <<>>
    /\ out = <<>>
    /\ IdleDriver

FileAddSection ==
    /\ pc = "file_build"
    /\ Len(f.Symbols) = 0
    /\ Len(f.Sections) < 1 + MaxUserSections
    /\ \E content \in SectionContents :
         f' = AddSection(f, N_text, SHT_PROGBITS, SHF_ALLOC + SHF_EXECINSTR,
                         content).f
    /\ UNCHANGED <<pc, m, artifact, symHeap, symbolMap, relaBuf, relI, loc,
                   out, mach, ret>>

(* The k-th AddSymbol call passes value k, so that every entry of the      *)
(* written table tells which call made it.                                 *)
FileAddSymbol ==
    /\ pc = "file_build"
    /\ Len(f.Symbols) < MaxSymbols
    /\ \E name \in SymbolNames, binding \in {STB_LOCAL, STB_GLOBAL, STB_WEAK},
          section \in {NIL} \cup (2..Len(f.Sections)) :
         LET typ == IF section = NIL THEN STT_NOTYPE ELSE STT_FUNC
             r == AddSymbol(f, symHeap, name, MakeSymbolInfo(binding, typ),
                            section, Len(f.Symbols) + 1, 0)
         IN  f' = r.f /\ symHeap' = r.heap
    /\ UNCHANGED <<pc, m, artifact, symbolMap, relaBuf, relI, loc, out,
                   mach, ret>>

FileWriteTo ==
    /\ pc = "file_build"
    /\ LET r == WriteTo(f, symHeap)
       IN  f' = r.f /\ symHeap' = r.heap /\ out' = r.writes
    /\ pc' = "file_written"
    /\ UNCHANGED <<m, artifact, symbolMap, relaBuf, relI, loc, mach, ret>>

NextFile == FileAddSection \/ FileAddSymbol \/ FileWriteTo

SpecFile == InitFile /\ [][NextFile]_vars

-----------------------------------------------------------------------------
(* Properties of the elf package (SpecFile).                               *)

Binding(sym) == sym.Info \div 16

(* The symbols of f.Symbols in the order the ELF specification asks for.   *)
LocalSymbols ==
    SelectSeq(f.Symbols, LAMBDA p : Binding(symHeap[p]) = STB_LOCAL)
GlobalSymbols ==
    SelectSeq(f.Symbols,
              LAMBDA p : Binding(symHeap[p]) \in {STB_GLOBAL, STB_WEAK})
ExpectedSymbolOrder == LocalSymbols \o GlobalSymbols

(* C4: after any AddSymbol calls and WriteTo, the written .symtab is the   *)
(* null entry, then the LOCAL symbols in insertion order, then the GLOBAL  *)
(* and WEAK symbols in insertion order; its sh_info is 1 + the number of   *)
(* locals and it holds 1 + (number of added symbols) entries of 24 bytes.  *)
C4_SymtabOrder ==
    pc = "file_written" =>
      LET b == OutBytes
      IN  /\ Cardinality(SectionsOfType(b, SHT_SYMTAB)) = 1
          /\ \A k \in SectionsOfType(b, SHT_SYMTAB) :
               /\ Sh_entsize(b, k) = 24
               /\ Sh_size(b, k) = 24 * (1 + Len(f.Symbols))
               /\ Sh_info(b, k) = 1 + Len(LocalSymbols)
               /\ Slice(b, SymAt(b, k, 0), 24) = Zeros(24)
               /\ Len(ExpectedSymbolOrder) = Len(f.Symbols)
               /\ \A j \in 1..Len(f.Symbols) :
                    LET sym == symHeap[ExpectedSymbolOrder[j]]
                    IN  /\ St_info(b, k, j) = sym.Info
                        /\ St_value(b, k, j) = sym.Value
                        /\ St_size(b, k, j) = sym.Size

(* C4 witness: a written file in which a LOCAL symbol was added after a    *)
(* GLOBAL one and a WEAK symbol is present.                                *)
C4_Witness ==
    /\ pc = "file_written"
    /\ \E i, j \in 1..Len(f.Symbols) :
         /\ i < j
         /\ Binding(symHeap[f.Symbols[i]]) = STB_GLOBAL
         /\ Binding(symHeap[f.Symbols[j]]) = STB_LOCAL
    /\ \E i \in 1..Len(f.Symbols) : Binding(symHeap[f.Symbols[i]]) = STB_WEAK

(* C3: in the written .symtab, st_name of every symbol with a non-empty    *)
(* name is the offset of that name in .strtab (the section .symtab links   *)
(* to), and so is not 0.                                                   *)
C3_SymbolNameOffsets ==
    pc = "file_written" =>
      LET b == OutBytes
      IN  \A k \in SectionsOfType(b, SHT_SYMTAB) :
            \A j \in 1..Len(f.Symbols) :
              LET sym == symHeap[ExpectedSymbolOrder[j]]
              IN  sym.Name # <<>> =>
                    /\ St_name(b, k, j) # 0
                    /\ CStringAt(b, Sh_offset(b, Sh_link(b, k))
                                      + St_name(b, k, j)) = sym.Name

-----------------------------------------------------------------------------
(* arch/amd64: types and the ABI.                                          *)
(*                                                                         *)
(* A type is a record with field kind ("void", "int", "float", "ptr",      *)
(* "array", "struct") and the fields of that kind: bits; elem and len;     *)
(* fields and packed.                                                      *)

RAX == 0
RCX == 1
RDX == 2
RSI == 6
RDI == 7
R8 == 8
R9 == 9

RECURSIVE SizeOf(_)
RECURSIVE AlignOf(_)
RECURSIVE GetStructSize(_)
RECURSIVE SumFieldSizes(_)
RECURSIVE LayoutFields(_, _, _, _)

(* The packed sum of SizeOf over a field list.                             *)
SumFieldSizes(fields) ==
    IF fields = <<>> THEN 0
    ELSE SizeOf(Head(fields)) + SumFieldSizes(Tail(fields))

SizeOf(t) ==
    CASE t.kind = "void" -> 0
      [] t.kind = "int" ->
            IF t.bits <= 8 THEN 1
            ELSE IF t.bits <= 16 THEN 2
            ELSE IF t.bits <= 32 THEN 4
            ELSE IF t.bits <= 64 THEN 8
            ELSE ((t.bits + 63) \div 64) * 8
      [] t.kind = "float" ->
            IF t.bits = 16 THEN 2
            ELSE IF t.bits = 32 THEN 4
            ELSE IF t.bits = 64 THEN 8
            ELSE IF t.bits = 128 THEN 16
            ELSE 8
      [] t.kind = "ptr" -> 8
      [] t.kind = "array" -> t.len * SizeOf(t.elem)
      [] t.kind = "struct" ->
            IF t.packed THEN SumFieldSizes(t.fields) ELSE GetStructSize(t)
      [] t.kind = "vector" ->
            IF t.scalable THEN 0
            ELSE IF SizeOf(t.elem) * t.len < 16 THEN SizeOf(t.elem) * t.len
            ELSE ((SizeOf(t.elem) * t.len + 15) \div 16) * 16
      [] t.kind = "label" -> 0
      [] OTHER -> 8

AlignOf(t) ==
    CASE t.kind \in {"void", "label"} -> 1
      [] t.kind = "int" ->
            IF t.bits <= 8 THEN 1
            ELSE IF t.bits <= 16 THEN 2
            ELSE IF t.bits <= 32 THEN 4
            ELSE 8
      [] t.kind = "float" ->
            IF t.bits = 16 THEN 2
            ELSE IF t.bits = 32 THEN 4
            ELSE IF t.bits = 64 THEN 8
            ELSE IF t.bits = 128 THEN 16
            ELSE 8
      [] t.kind = "ptr" -> 8
      [] t.kind = "array" -> AlignOf(t.elem)
      [] t.kind = "struct" ->
            IF t.packed THEN 1
            ELSE LET aligns == {1} \cup
                               {AlignOf(t.fields[i]) : i \in DOMAIN t.fields}
                 IN  CHOOSE a \in aligns : \A b \in aligns : b <= a
      [] t.kind = "vector" ->
            IF SizeOf(t.elem) * t.len <= 16 THEN SizeOf(t.elem) * t.len
            ELSE 16
      [] OTHER -> 8

(* offset rounded up to a multiple of align.                               *)
AlignUp(offset, align) ==
    IF offset % align # 0 THEN offset + (align - (offset % align))
    ELSE offset

(* The offset reached after laying out fields i..n, each aligned to its    *)
(* own alignment, starting from offset.                                    *)
LayoutFields(fields, i, n, offset) ==
    IF i > n THEN offset
    ELSE LayoutFields(fields, i + 1, n,
                      AlignUp(offset, AlignOf(fields[i])) + SizeOf(fields[i]))

(* GetStructSize that leaves out the padding behind the last field.        *)
GetStructSize_noTailPadding(st) ==
    IF st.packed THEN SumFieldSizes(st.fields)
    ELSE LayoutFields(st.fields, 1, Len(st.fields), 0)

GetStructSize(st) ==
    IF st.packed THEN SumFieldSizes(st.fields)
    ELSE AlignUp(LayoutFields(st.fields, 1, Len(st.fields), 0), AlignOf(st))

(* GetStructFieldOffset that does not align to the field it was asked     *)
(* for.                                                                    *)
GetStructFieldOffset_endOfPrevious(st, fieldIndex) ==
    IF fieldIndex < 0 \/ fieldIndex >= Len(st.fields) THEN 0
    ELSE IF st.packed
    THEN SumFieldSizes(SubSeq(st.fields, 1, fieldIndex))
    ELSE LayoutFields(st.fields, 1, fieldIndex, 0)

(* fieldIndex is 0-based as in the source.                                 *)
GetStructFieldOffset(st, fieldIndex) ==
    IF fieldIndex < 0 \/ fieldIndex >= Len(st.fields) THEN 0
    ELSE IF st.packed
    THEN SumFieldSizes(SubSeq(st.fields, 1, fieldIndex))
    ELSE AlignUp(LayoutFields(st.fields, 1, fieldIndex, 0),
                 AlignOf(st.fields[fieldIndex + 1]))

-----------------------------------------------------------------------------
(* arch/amd64: the compiler and its emit helpers.                          *)
(*                                                                         *)
(* An ir.Value is a record with field k: "const" (ConstantInt: ty, v),     *)
(* "zero" (ConstantZero: ty), "global" (name, ty), "arg" (id, ty),        *)
(* "inst" (id, ty) or "nil".  An instruction is a value of k "inst" that also has   *)
(* op, ops and the fields of its opcode; ty is the void type when it       *)
(* yields nothing.  id stands for the pointer identity the Go maps are     *)
(* keyed by.  A basic block is named by its position in fn.blocks.  Every  *)
(* compiler method takes the compiler and returns it; err is the error     *)
(* the method returned, "" for nil.                                        *)

NewCompiler ==
    [text |-> <<>>, data |-> <<>>, stackMap |-> <<>>, allocaOffsets |-> <<>>,
     blockOffsets |-> <<>>, fixups |-> <<>>, relocations |-> <<>>,
     currentFrame |-> 0, err |-> ""]

Key(v) == <<v.k, v.id>>

IsFloat(t) == t.kind = "float"

Fail(c, msg) == [c EXCEPT !.err = msg]

(* v as n little-endian bytes in two's complement.                         *)
IntLE(v, n) ==
    IF v >= 0 THEN LE(v, n)
    ELSE [i \in 1..n |-> 255 - LE(-v - 1, n)[i]]

emitBytes(c, b) == [c EXCEPT !.text = @ \o b]

emitXorReg(c, dst, src) ==
    LET rex == 72 + (IF dst >= 8 THEN 4 ELSE 0) + (IF src >= 8 THEN 1 ELSE 0)
        dstReg == IF dst >= 8 THEN dst - 8 ELSE dst
        srcReg == IF src >= 8 THEN src - 8 ELSE src
    IN  emitBytes(c, <<rex, 49, 192 + srcReg * 8 + dstReg>>)

emitLoadFromStack(c, reg, offset, size) ==
    LET needsREX == reg >= 8
        rex == 64 + (IF needsREX THEN 4 ELSE 0)
        regNum == IF needsREX THEN reg - 8 ELSE reg
        modrm == 133 + regNum * 8
        pre == IF needsREX THEN <<rex>> ELSE <<>>
    IN  CASE size = 1 ->
               emitBytes(c, pre \o <<15, 182, modrm>> \o IntLE(offset, 4))
          [] size = 2 ->
               emitBytes(c, pre \o <<15, 183, modrm>> \o IntLE(offset, 4))
          [] size = 4 ->
               emitBytes(c, pre \o <<139, modrm>> \o IntLE(offset, 4))
          [] OTHER ->
               emitBytes(c, <<rex + 8, 139, modrm>> \o IntLE(offset, 4))

emitStoreToStack(c, reg, offset, size) ==
    LET needsREX == reg >= 8
        rex == 64 + (IF needsREX THEN 4 ELSE 0)
        regNum == IF needsREX THEN reg - 8 ELSE reg
        modrm == 133 + regNum * 8
        pre == IF needsREX THEN <<rex>> ELSE <<>>
    IN  CASE size = 1 ->
               emitBytes(c, (IF needsREX \/ reg >= 4 THEN <<rex>> ELSE <<>>)
                            \o <<136, modrm>> \o IntLE(offset, 4))
          [] size = 2 ->
               emitBytes(c, <<102>> \o pre \o <<137, modrm>>
                            \o IntLE(offset, 4))
          [] size = 4 ->
               emitBytes(c, pre \o <<137, modrm>> \o IntLE(offset, 4))
          [] OTHER ->
               emitBytes(c, <<rex + 8, 137, modrm>> \o IntLE(offset, 4))

loadConstInt(c, reg, value) ==
    IF value = 0 THEN emitXorReg(c, reg, reg)
    ELSE IF reg >= 8
    THEN emitBytes(c, <<73, 184 + (reg - 8)>> \o IntLE(value, 8))
    ELSE emitBytes(c, <<72, 184 + reg>> \o IntLE(value, 8))

emitLeaRipRelative(c, reg, symbolName) ==
    LET rex == 72 + (IF reg >= 8 THEN 4 ELSE 0)
        regNum == IF reg >= 8 THEN reg - 8 ELSE reg
        lea == emitBytes(c, <<rex, 141, 5 + regNum * 8>>)
    IN  emitBytes([lea EXCEPT !.relocations =
                       Append(@, [Offset |-> Len(lea.text),
                                  SymbolName |-> symbolName,
                                  Type |-> R_X86_64_PC32,
                                  Addend |-> -4])],
                  IntLE(0, 4))

loadToReg(c, reg, value) ==
    CASE value.k = "const" -> loadConstInt(c, reg, value.v)
      [] value.k \in {"null", "undef"} -> emitXorReg(c, reg, reg)
      [] value.k = "global" -> emitLeaRipRelative(c, reg, value.name)
      [] OTHER ->
            IF Key(value) \notin DOMAIN c.stackMap
            THEN emitXorReg(c, reg, reg)
            ELSE emitLoadFromStack(c, reg, c.stackMap[Key(value)],
                                   SizeOf(value.ty))

(* loadToFpReg for a value that is not a ConstantFloat.                    *)
loadToFpReg(c, xmmReg, value) ==
    LET rex == IF xmmReg >= 8 THEN <<68>> ELSE <<>>
        regNum == IF xmmReg >= 8 THEN xmmReg - 8 ELSE xmmReg
    IN  IF Key(value) \notin DOMAIN c.stackMap
        THEN emitBytes(c, (IF xmmReg >= 8 THEN <<5>> ELSE <<>>)
                          \o <<15, 87, 192 + regNum * 8 + regNum>>)
        ELSE emitBytes(c, <<(IF value.ty.bits = 32 THEN 243 ELSE 242)>>
                          \o rex \o <<15, 16, 133 + regNum * 8>>
                          \o IntLE(c.stackMap[Key(value)], 4))

storeFromReg(c, reg, dest) ==
    IF Key(dest) \notin DOMAIN c.stackMap THEN c
    ELSE emitStoreToStack(c, reg, c.stackMap[Key(dest)], SizeOf(dest.ty))

storeFromFpReg(c, xmmReg, dest) ==
    LET rex == IF xmmReg >= 8 THEN <<68>> ELSE <<>>
        regNum == IF xmmReg >= 8 THEN xmmReg - 8 ELSE xmmReg
    IN  IF Key(dest) \notin DOMAIN c.stackMap THEN c
        ELSE emitBytes(c, <<(IF dest.ty.bits = 32 THEN 243 ELSE 242)>>
                          \o rex \o <<15, 17, 133 + regNum * 8>>
                          \o IntLE(c.stackMap[Key(dest)], 4))

-----------------------------------------------------------------------------
(* arch/amd64: instruction lowering.                                       *)

argRegs == <<RDI, RSI, RDX, RCX, R8, R9>>

(* The body addOp, subOp, andOp, orOp and xorOp share but for two bytes:   *)
(* modrm of the immediate forms, opcode of the register form.  Here the    *)
(* imm8 form is taken for 0..255.                                          *)
arithOp_unsignedImm8(c, inst, modrm, opcode) ==
    LET lhs == inst.ops[1]
        rhs == inst.ops[2]
        l == loadToReg(c, RAX, lhs)
    IN  storeFromReg(
          IF rhs.k = "const"
          THEN IF rhs.v >= 0 /\ rhs.v <= 255
               THEN emitBytes(l, <<72, 131, modrm, rhs.v>>)
               ELSE emitBytes(l, <<72, 129, modrm>> \o IntLE(rhs.v, 4))
          ELSE emitBytes(loadToReg(l, RCX, rhs), <<72, opcode, 200>>),
          RAX, inst)

(* The body addOp, subOp, andOp, orOp and xorOp share but for two bytes:   *)
(* modrm of the immediate forms, opcode of the register form.              *)
arithOp(c, inst, modrm, opcode) ==
    LET lhs == inst.ops[1]
        rhs == inst.ops[2]
        l == loadToReg(c, RAX, lhs)
    IN  storeFromReg(
          IF rhs.k = "const"
          THEN IF rhs.v >= -128 /\ rhs.v <= 127
               THEN emitBytes(l, <<72, 131, modrm>> \o IntLE(rhs.v, 1))
               ELSE emitBytes(l, <<72, 129, modrm>> \o IntLE(rhs.v, 4))
          ELSE emitBytes(loadToReg(l, RCX, rhs), <<72, opcode, 200>>),
          RAX, inst)

addOp(c, inst) == arithOp(c, inst, 192, 1)
subOp(c, inst) == arithOp(c, inst, 232, 41)
andOp(c, inst) == arithOp(c, inst, 224, 33)
orOp(c, inst) == arithOp(c, inst, 200, 9)
xorOp(c, inst) == arithOp(c, inst, 240, 49)

allocaOp(c, inst) ==
    IF Key(inst) \notin DOMAIN c.allocaOffsets
    THEN Fail(c, "unknown alloca instruction")
    ELSE storeFromReg(
           emitBytes(c, <<72, 141, 133>>
                        \o IntLE(c.allocaOffsets[Key(inst)], 4)),
           RAX, inst)

(* loadOp that falls back to an 8-byte load for any other size.          *)
loadOp_anySize(c, inst) ==
    LET l == loadToReg(c, RAX, inst.ops[1])
        size == SizeOf(inst.ty)
    IN  CASE size = 1 -> storeFromReg(emitBytes(l, <<72, 15, 182, 0>>),
                                      RAX, inst)
          [] size = 2 -> storeFromReg(emitBytes(l, <<72, 15, 183, 0>>),
                                      RAX, inst)
          [] size = 4 -> storeFromReg(emitBytes(l, <<139, 0>>), RAX, inst)
          [] OTHER -> storeFromReg(emitBytes(l, <<72, 139, 0>>), RAX, inst)

loadOp(c, inst) ==
    LET l == loadToReg(c, RAX, inst.ops[1])
        size == SizeOf(inst.ty)
    IN  CASE size = 1 -> storeFromReg(emitBytes(l, <<72, 15, 182, 0>>),
                                      RAX, inst)
          [] size = 2 -> storeFromReg(emitBytes(l, <<72, 15, 183, 0>>),
                                      RAX, inst)
          [] size = 4 -> storeFromReg(emitBytes(l, <<139, 0>>), RAX, inst)
          [] size = 8 -> storeFromReg(emitBytes(l, <<72, 139, 0>>), RAX, inst)
          [] OTHER -> Fail(l, "unsupported load size")

storeOp(c, inst) ==
    LET value == inst.ops[1]
        ptr == inst.ops[2]
        l == loadToReg(loadToReg(c, RAX, value), RCX, ptr)
        size == SizeOf(value.ty)
    IN  CASE size = 1 -> emitBytes(l, <<136, 1>>)
          [] size = 2 -> emitBytes(l, <<102, 137, 1>>)
          [] size = 4 -> emitBytes(l, <<137, 1>>)
          [] size = 8 -> emitBytes(l, <<72, 137, 1>>)
          [] OTHER -> Fail(l, "unsupported store size")

(* The loop of gepOp over ops[1:], at its 0-based position i.              *)
RECURSIVE gepIndices(_, _, _, _)
gepIndices(c, ops, i, currentType) ==
    IF i + 2 > Len(ops) THEN c
    ELSE LET idx == ops[i + 2]
             scale(elemSize) ==
                 IF idx.k = "const"
                 THEN IF idx.v * elemSize = 0 THEN c
                      ELSE IF idx.v * elemSize >= -128
                              /\ idx.v * elemSize <= 127
                      THEN emitBytes(c, <<72, 131, 192>>
                                        \o IntLE(idx.v * elemSize, 1))
                      ELSE emitBytes(c, <<72, 5>>
                                        \o IntLE(idx.v * elemSize, 4))
                 ELSE emitBytes(
                        IF elemSize = 1 THEN loadToReg(c, RCX, idx)
                        ELSE IF elemSize <= 127
                        THEN emitBytes(loadToReg(c, RCX, idx),
                                       <<72, 107, 201>> \o IntLE(elemSize, 1))
                        ELSE emitBytes(loadToReg(c, RCX, idx),
                                       <<72, 105, 201>> \o IntLE(elemSize, 4)),
                        <<72, 1, 200>>)
         IN  IF i = 0
             THEN gepIndices(scale(SizeOf(currentType)), ops, i + 1,
                             currentType)
             ELSE CASE currentType.kind \in {"array", "ptr"} ->
                         gepIndices(scale(SizeOf(currentType.elem)), ops,
                                    i + 1, currentType.elem)
                    [] currentType.kind = "struct" ->
                         IF idx.k = "const"
                         THEN gepIndices(
                                IF GetStructFieldOffset(currentType, idx.v)
                                     <= 127
                                THEN emitBytes(c, <<72, 131, 192>> \o IntLE(
                                       GetStructFieldOffset(currentType,
                                                            idx.v), 1))
                                ELSE emitBytes(c, <<72, 5>> \o IntLE(
                                       GetStructFieldOffset(currentType,
                                                            idx.v), 4)),
                                ops, i + 1, currentType.fields[idx.v + 1])
                         ELSE Fail(c, "struct GEP requires constant index")
                    [] OTHER -> Fail(c, "invalid GEP type")

gepOp(c, inst) ==
    LET g == gepIndices(loadToReg(c, RAX, inst.ops[1]), inst.ops, 0,
                        inst.SourceElementType)
    IN  IF g.err # "" THEN g ELSE storeFromReg(g, RAX, inst)

icmpOp(c, inst) ==
    LET l == emitBytes(loadToReg(loadToReg(c, RAX, inst.ops[1]), RCX,
                                 inst.ops[2]),
                       <<72, 57, 200>>)
        setcc == CASE inst.Predicate = "eq" -> 148
                   [] inst.Predicate = "ne" -> 149
                   [] inst.Predicate = "slt" -> 156
                   [] inst.Predicate = "sle" -> 158
                   [] inst.Predicate = "sgt" -> 159
                   [] inst.Predicate = "sge" -> 157
                   [] inst.Predicate = "ult" -> 146
                   [] inst.Predicate = "ule" -> 150
                   [] inst.Predicate = "ugt" -> 151
                   [] inst.Predicate = "uge" -> 147
                   [] OTHER -> 0
    IN  IF setcc = 0 THEN Fail(l, "unsupported icmp predicate")
        ELSE storeFromReg(emitBytes(l, <<15, setcc, 192, 72, 15, 182, 192>>),
                          RAX, inst)

fcmpOp(c, inst) ==
    LET l == emitBytes(loadToFpReg(loadToFpReg(c, 0, inst.ops[1]), 1,
                                   inst.ops[2]),
                       <<(IF inst.ops[1].ty.bits = 32 THEN 243 ELSE 242),
                         15, 46, 193>>)
        setcc == CASE inst.Predicate = "oeq" -> 148
                   [] inst.Predicate = "one" -> 149
                   [] inst.Predicate = "olt" -> 146
                   [] inst.Predicate = "ole" -> 150
                   [] inst.Predicate = "ogt" -> 151
                   [] inst.Predicate = "oge" -> 147
                   [] OTHER -> 0
    IN  IF setcc = 0 THEN Fail(l, "unsupported fcmp predicate")
        ELSE storeFromReg(emitBytes(l, <<15, setcc, 192, 72, 15, 182, 192>>),
                          RAX, inst)

(* retOp without the leave.                                               *)
retOp_noLeave(c, inst) ==
    emitBytes(IF Len(inst.ops) > 0
              THEN IF IsFloat(inst.ops[1].ty)
                   THEN loadToFpReg(c, 0, inst.ops[1])
                   ELSE loadToReg(c, RAX, inst.ops[1])
              ELSE c,
              <<195>>)

retOp(c, inst) ==
    emitBytes(IF Len(inst.ops) > 0
              THEN IF IsFloat(inst.ops[1].ty)
                   THEN loadToFpReg(c, 0, inst.ops[1])
                   ELSE loadToReg(c, RAX, inst.ops[1])
              ELSE c,
              <<201, 195>>)

(* The jump opcode followed by a fixup and its 4-byte placeholder.         *)
emitJump(c, opcode, target) ==
    LET j == emitBytes(c, opcode)
    IN  emitBytes([j EXCEPT !.fixups =
                       Append(@, [offset |-> Len(j.text), target |-> target])],
                  IntLE(0, 4))

brOp(c, inst) == emitJump(c, <<233>>, inst.Target)

condBrOp(c, inst) ==
    emitJump(emitJump(emitBytes(loadToReg(c, RAX, inst.Condition),
                                <<72, 133, 192>>),
                      <<15, 133>>, inst.TrueBlock),
             <<233>>, inst.FalseBlock)

(* The comparison chain of switchOp from the case at position i on.        *)
RECURSIVE switchCases(_, _, _)
switchCases(c, cases, i) ==
    IF i > Len(cases) THEN c
    ELSE switchCases(
           emitJump(
             emitBytes(c, IF cases[i].Value >= -128 /\ cases[i].Value <= 127
                          THEN <<72, 131, 248>> \o IntLE(cases[i].Value, 1)
                          ELSE <<72, 61>> \o IntLE(cases[i].Value, 4)),
             <<15, 132>>, cases[i].Block),
           cases, i + 1)

switchOp(c, inst) ==
    emitJump(switchCases(loadToReg(c, RAX, inst.Condition), inst.Cases, 1),
             <<233>>, inst.DefaultBlock)

phiOp(c, inst) == c

(* The classification loop of callOp over ops, at its 1-based position i.  *)
(* (callOp runs without a pending error: reading err in this loop and the  *)
(* next makes TLC evaluate c at every step.)                               *)
RECURSIVE callArgs(_, _, _, _, _, _)
callArgs(c, ops, i, intArgIdx, fpArgIdx, stackArgs) ==
    IF i > Len(ops) \/ c.err # "" THEN [c |-> c, stackArgs |-> stackArgs]
    ELSE IF IsFloat(ops[i].ty)
    THEN IF fpArgIdx < 8
         THEN callArgs(loadToFpReg(c, fpArgIdx, ops[i]), ops, i + 1,
                       intArgIdx, fpArgIdx + 1, stackArgs)
         ELSE callArgs(c, ops, i + 1, intArgIdx, fpArgIdx,
                       Append(stackArgs, ops[i]))
    ELSE IF intArgIdx < Len(argRegs)
         THEN callArgs(loadToReg(c, argRegs[intArgIdx + 1], ops[i]), ops,
                       i + 1, intArgIdx + 1, fpArgIdx, stackArgs)
         ELSE callArgs(c, ops, i + 1, intArgIdx, fpArgIdx,
                       Append(stackArgs, ops[i]))

(* The push loop of callOp: stackArgs[i], ..., stackArgs[1] in that order. *)
RECURSIVE callPush(_, _, _)
callPush(c, stackArgs, i) ==
    IF i = 0 \/ c.err # "" THEN c
    ELSE callPush(emitBytes(loadToReg(c, RAX, stackArgs[i]), <<80>>),
                  stackArgs, i - 1)

(* callOp that never pads the stack before the call.                      *)
callOp_noPadding(c, inst) ==
    LET pushAll(a) == [c |-> callPush(a.c, a.stackArgs, Len(a.stackArgs)),
                       n |-> Len(a.stackArgs)]
        align(p) == [c |-> p.c, stackAdjust |-> p.n * 8]
        call(x) == emitBytes([x EXCEPT !.relocations =
                                 Append(@, [Offset |-> Len(x.text),
                                            SymbolName |-> inst.CalleeName,
                                            Type |-> R_X86_64_PLT32,
                                            Addend |-> -4])],
                             IntLE(0, 4))
        cleanup(x, stackAdjust) ==
            IF stackAdjust > 0
            THEN IF stackAdjust <= 127
                 THEN emitBytes(x, <<72, 131, 196, stackAdjust>>)
                 ELSE emitBytes(x, <<72, 129, 196>> \o IntLE(stackAdjust, 4))
            ELSE x
        finish(al) ==
            IF inst.ty.kind # "void"
            THEN IF IsFloat(inst.ty)
                 THEN storeFromFpReg(
                        cleanup(call(emitBytes(al.c, <<232>>)),
                                al.stackAdjust), 0, inst)
                 ELSE storeFromReg(
                        cleanup(call(emitBytes(al.c, <<232>>)),
                                al.stackAdjust), RAX, inst)
            ELSE cleanup(call(emitBytes(al.c, <<232>>)), al.stackAdjust)
    IN  finish(align(pushAll(callArgs(c, inst.ops, 1, 0, 0, <<>>))))

callOp(c, inst) ==
    LET pushAll(a) == [c |-> callPush(a.c, a.stackArgs, Len(a.stackArgs)),
                       n |-> Len(a.stackArgs)]
        align(p) == IF (p.n * 8) % 16 # 0
                    THEN [c |-> emitBytes(p.c, <<72, 131, 236, 8>>),
                          stackAdjust |-> p.n * 8 + 8]
                    ELSE [c |-> p.c, stackAdjust |-> p.n * 8]
        call(x) == emitBytes([x EXCEPT !.relocations =
                                 Append(@, [Offset |-> Len(x.text),
                                            SymbolName |-> inst.CalleeName,
                                            Type |-> R_X86_64_PLT32,
                                            Addend |-> -4])],
                             IntLE(0, 4))
        cleanup(x, stackAdjust) ==
            IF stackAdjust > 0
            THEN IF stackAdjust <= 127
                 THEN emitBytes(x, <<72, 131, 196, stackAdjust>>)
                 ELSE emitBytes(x, <<72, 129, 196>> \o IntLE(stackAdjust, 4))
            ELSE x
        finish(al) ==
            IF inst.ty.kind # "void"
            THEN IF IsFloat(inst.ty)
                 THEN storeFromFpReg(
                        cleanup(call(emitBytes(al.c, <<232>>)),
                                al.stackAdjust), 0, inst)
                 ELSE storeFromReg(
                        cleanup(call(emitBytes(al.c, <<232>>)),
                                al.stackAdjust), RAX, inst)
            ELSE cleanup(call(emitBytes(al.c, <<232>>)), al.stackAdjust)
    IN  finish(align(pushAll(callArgs(c, inst.ops, 1, 0, 0, <<>>))))

compileInstruction(c, inst) ==
    CASE inst.op = "add" -> addOp(c, inst)
      [] inst.op = "sub" -> subOp(c, inst)
      [] inst.op = "and" -> andOp(c, inst)
      [] inst.op = "or" -> orOp(c, inst)
      [] inst.op = "xor" -> xorOp(c, inst)
      [] inst.op = "alloca" -> allocaOp(c, inst)
      [] inst.op = "load" -> loadOp(c, inst)
      [] inst.op = "store" -> storeOp(c, inst)
      [] inst.op = "getelementptr" -> gepOp(c, inst)
      [] inst.op = "icmp" -> icmpOp(c, inst)
      [] inst.op = "fcmp" -> fcmpOp(c, inst)
      [] inst.op = "ret" -> retOp(c, inst)
      [] inst.op = "br" -> brOp(c, inst)
      [] inst.op = "condbr" -> condBrOp(c, inst)
      [] inst.op = "switch" -> switchOp(c, inst)
      [] inst.op = "phi" -> phiOp(c, inst)
      [] inst.op = "call" -> callOp(c, inst)
      [] OTHER -> Fail(c, "unsupported opcode")

-----------------------------------------------------------------------------
(* arch/amd64: compileFunction.                                            *)

(* Every instruction of fn in block order.                                 *)
Insts(fn) == Flatten([b \in 1..Len(fn.Blocks) |-> fn.Blocks[b].Instructions])

(* alloc that does not align the offset to the slot size.                 *)
alloc_unaligned(st, v, sz) ==
    LET s == IF sz < 8 THEN 8 ELSE sz
        off == st.offset + s
    IN  [offset |-> off, stackMap |-> (Key(v) :> (-off)) @@ st.stackMap]

(* The closure alloc of compileFunction on st = (offset, stackMap).        *)
alloc(st, v, sz) ==
    LET s == IF sz < 8 THEN 8 ELSE sz
        off == AlignUp(st.offset, s) + s
    IN  [offset |-> off, stackMap |-> (Key(v) :> (-off)) @@ st.stackMap]

(* Step 1: a slot for every argument, then for every instruction that      *)
(* yields a value; vals is that list, i the 1-based position.  (offset     *)
(* never is negative: reading it here makes TLC evaluate st at every step  *)
(* rather than nest Len(vals) deferred evaluations.)                       *)
RECURSIVE allocValues(_, _, _)
allocValues(st, vals, i) ==
    IF i > Len(vals) \/ st.offset < 0 THEN st
    ELSE allocValues(
           alloc(st, vals[i],
                 IF vals[i].k = "inst" /\ vals[i].op = "alloca" THEN 8
                 ELSE SizeOf(vals[i].ty)),
           vals, i + 1)

(* The loop that sizes the storage of the alloca instructions.             *)
RECURSIVE allocaStorage(_, _, _)
allocaStorage(insts, i, allocaOffset) ==
    IF i > Len(insts) THEN allocaOffset
    ELSE IF insts[i].op = "alloca"
    THEN LET base == SizeOf(insts[i].AllocatedType)
             size == IF insts[i].NumElements.k = "const"
                     THEN base * insts[i].NumElements.v
                     ELSE base
         IN  allocaStorage(insts, i + 1,
                           allocaOffset + (IF size < 8 THEN 8 ELSE size))
    ELSE allocaStorage(insts, i + 1, allocaOffset)

emitPrologue(c) ==
    IF c.currentFrame > 0
    THEN IF c.currentFrame <= 127
         THEN emitBytes(c, <<85, 72, 137, 229, 72, 131, 236, c.currentFrame>>)
         ELSE emitBytes(c, <<85, 72, 137, 229, 72, 129, 236>>
                           \o IntLE(c.currentFrame, 4))
    ELSE emitBytes(c, <<85, 72, 137, 229>>)

(* emitArgSave from the argument at 0-based position i on.  (It is called  *)
(* without a pending error: reading err here makes TLC evaluate c at every *)
(* step rather than nest Len(args) deferred evaluations.)                  *)
RECURSIVE emitArgSave(_, _, _)
emitArgSave(c, args, i) ==
    IF i >= Len(args) \/ c.err # "" THEN c
    ELSE LET arg == args[i + 1]
             offset == c.stackMap[Key(arg)]
             size == SizeOf(arg.ty)
         IN  IF i < Len(argRegs)
             THEN emitArgSave(IF size <= 8
                              THEN emitStoreToStack(c, argRegs[i + 1],
                                                    offset, size)
                              ELSE c,
                              args, i + 1)
             ELSE emitArgSave(
                    emitStoreToStack(
                      emitBytes(c, (IF size = 4 THEN <<139, 133>>
                                    ELSE <<72, 139, 133>>)
                                   \o IntLE(16 + (i - 6) * 8, 4)),
                      RAX, offset, size),
                    args, i + 1)

RECURSIVE compileInstructions(_, _, _)
compileInstructions(c, insts, i) ==
    IF i > Len(insts) \/ c.err # "" THEN c
    ELSE compileInstructions(compileInstruction(c, insts[i]), insts, i + 1)

(* Step 4: the blocks from position b on; stops at the first error.        *)
RECURSIVE compileBlocks(_, _, _)
compileBlocks(c, blocks, b) ==
    IF b > Len(blocks) \/ c.err # "" THEN c
    ELSE compileBlocks(
           compileInstructions(
             [c EXCEPT !.blockOffsets = (b :> Len(c.text)) @@ @],
             blocks[b].Instructions, 1),
           blocks, b + 1)

(* applyFixups that measures the displacement from the placeholder's       *)
(* first byte.                                                             *)
RECURSIVE applyFixups_fromPlaceholder(_, _)
applyFixups_fromPlaceholder(c, i) ==
    IF i > Len(c.fixups) THEN c
    ELSE LET fix == c.fixups[i]
         IN  IF fix.target \notin DOMAIN c.blockOffsets
             THEN applyFixups_fromPlaceholder(c, i + 1)
             ELSE applyFixups_fromPlaceholder(
                    [c EXCEPT !.text =
                       [j \in 1..Len(@) |->
                          IF j > fix.offset /\ j <= fix.offset + 4
                          THEN IntLE(c.blockOffsets[fix.target]
                                       - fix.offset, 4)[j - fix.offset]
                          ELSE @[j]]],
                    i + 1)

(* applyFixups that writes the displacement one byte early, over the jump  *)
(* opcode.                                                                 *)
RECURSIVE applyFixups_overOpcode(_, _)
applyFixups_overOpcode(c, i) ==
    IF i > Len(c.fixups) THEN c
    ELSE LET fix == c.fixups[i]
         IN  IF fix.target \notin DOMAIN c.blockOffsets
             THEN applyFixups_overOpcode(c, i + 1)
             ELSE applyFixups_overOpcode(
                    [c EXCEPT !.text =
                       [j \in 1..Len(@) |->
                          IF j >= fix.offset /\ j < fix.offset + 4
                          THEN IntLE(c.blockOffsets[fix.target]
                                       - (fix.offset + 4), 4)[j - fix.offset
                                                                + 1]
                          ELSE @[j]]],
                    i + 1)

(* applyFixups from the fixup at position i on.                            *)
RECURSIVE applyFixups(_, _)
applyFixups(c, i) ==
    IF i > Len(c.fixups) THEN c
    ELSE LET fix == c.fixups[i]
         IN  IF fix.target \notin DOMAIN c.blockOffsets
             THEN applyFixups(c, i + 1)
             ELSE applyFixups(
                    [c EXCEPT !.text =
                       [j \in 1..Len(@) |->
                          IF j > fix.offset /\ j <= fix.offset + 4
                          THEN IntLE(c.blockOffsets[fix.target]
                                       - (fix.offset + 4), 4)[j - fix.offset]
                          ELSE @[j]]],
                    i + 1)

(* Step 1 for the function fn: the offset reached and the stackMap.        *)
Slots(fn) ==
    LET values == fn.Arguments
                  \o SelectSeq(Insts(fn), LAMBDA x : x.ty.kind # "void")
    IN  allocValues([offset |-> 0, stackMap |-> <<>>], values, 1)

(* Steps 1 to 4 of compileFunction: the frame, the prologue, the saved     *)
(* arguments and the blocks.                                               *)
compileBody(c, fn) ==
    LET enter(st) ==
            [c EXCEPT !.stackMap = st.stackMap, !.blockOffsets = <<>>,
                      !.fixups = <<>>,
                      !.currentFrame =
                          AlignUp(allocaStorage(Insts(fn), 1, st.offset), 16)]
    IN  compileBlocks(
          emitArgSave(emitPrologue(enter(Slots(fn))), fn.Arguments, 0),
          fn.Blocks, 1)

compileFunction(c, fn) ==
    LET finish(body) == IF body.err # "" THEN body ELSE applyFixups(body, 1)
    IN  finish(compileBody(c, fn))

-----------------------------------------------------------------------------
(* arch/amd64: globals and Compile.                                        *)

RECURSIVE emitConstant(_, _)
RECURSIVE emitElements(_, _, _)
RECURSIVE emitFields(_, _, _, _, _)

(* The ConstantArray loop of emitConstant.                                 *)
emitElements(c, elems, i) ==
    IF i > Len(elems) \/ c.err # "" THEN c
    ELSE emitElements(emitConstant(c, elems[i]), elems, i + 1)

(* The ConstantStruct loop of emitConstant, at 0-based field i.            *)
emitFields(c, st, fields, i, offset) ==
    IF i >= Len(fields) \/ c.err # "" THEN c
    ELSE LET fieldOffset == GetStructFieldOffset(st, i)
             padded == IF offset < fieldOffset THEN fieldOffset ELSE offset
         IN  emitFields(
               emitConstant([c EXCEPT !.data = @ \o Zeros(padded - offset)],
                            fields[i + 1]),
               st, fields, i + 1, padded + SizeOf(fields[i + 1].ty))

emitConstant(c, constant) ==
    CASE constant.k = "const" ->
            IF SizeOf(constant.ty) \in {1, 2, 4, 8}
            THEN [c EXCEPT !.data = @ \o IntLE(constant.v,
                                               SizeOf(constant.ty))]
            ELSE c
      [] constant.k = "zero" ->
            [c EXCEPT !.data = @ \o Zeros(SizeOf(constant.ty))]
      [] constant.k = "array" -> emitElements(c, constant.Elements, 1)
      [] constant.k = "struct" ->
            emitFields(c, constant.ty, constant.Fields, 0, 0)
      [] OTHER -> Fail(c, "unsupported constant type")

compileGlobal(c, g) ==
    LET aligned == [c EXCEPT !.data =
                        @ \o Zeros(AlignUp(Len(@), 8) - Len(@))]
    IN  IF g.Initializer.k = "nil"
        THEN [aligned EXCEPT !.data = @ \o Zeros(SizeOf(g.Type))]
        ELSE emitConstant(aligned, g.Initializer)

(* The two loops of Compile; r is the compiler and the symbols so far.     *)
RECURSIVE compileGlobals(_, _, _)
compileGlobals(r, globals, i) ==
    IF i > Len(globals) \/ r.c.err # "" THEN r
    ELSE LET after(c) ==
                 [c |-> c,
                  symbols |-> Append(r.symbols,
                      [Name |-> globals[i].Name, Offset |-> Len(r.c.data),
                       Size |-> Len(c.data) - Len(r.c.data),
                       IsFunc |-> FALSE, IsGlobal |-> TRUE])]
         IN  compileGlobals(after(compileGlobal(r.c, globals[i])), globals,
                            i + 1)

(* compileFunctions that takes endOff for the size of the symbol.        *)
RECURSIVE compileFunctions_sizeIsEnd(_, _, _)
compileFunctions_sizeIsEnd(r, fns, i) ==
    IF i > Len(fns) \/ r.c.err # "" THEN r
    ELSE IF Len(fns[i].Blocks) = 0
    THEN compileFunctions_sizeIsEnd(r, fns, i + 1)
    ELSE LET after(c) ==
                 [c |-> c,
                  symbols |-> Append(r.symbols,
                      [Name |-> fns[i].Name, Offset |-> Len(r.c.text),
                       Size |-> Len(c.text),
                       IsFunc |-> TRUE, IsGlobal |-> FALSE])]
         IN  compileFunctions_sizeIsEnd(after(compileFunction(r.c, fns[i])),
                                        fns, i + 1)

(* compileFunctions that does not skip a function without blocks.        *)
RECURSIVE compileFunctions_noSkip(_, _, _)
compileFunctions_noSkip(r, fns, i) ==
    IF i > Len(fns) \/ r.c.err # "" THEN r
    ELSE LET after(c) ==
                 [c |-> c,
                  symbols |-> Append(r.symbols,
                      [Name |-> fns[i].Name, Offset |-> Len(r.c.text),
                       Size |-> Len(c.text) - Len(r.c.text),
                       IsFunc |-> TRUE, IsGlobal |-> FALSE])]
         IN  compileFunctions_noSkip(after(compileFunction(r.c, fns[i])),
                                     fns, i + 1)

RECURSIVE compileFunctions(_, _, _)
compileFunctions(r, fns, i) ==
    IF i > Len(fns) \/ r.c.err # "" THEN r
    ELSE IF Len(fns[i].Blocks) = 0 THEN compileFunctions(r, fns, i + 1)
    ELSE LET after(c) ==
                 [c |-> c,
                  symbols |-> Append(r.symbols,
                      [Name |-> fns[i].Name, Offset |-> Len(r.c.text),
                       Size |-> Len(c.text) - Len(r.c.text),
                       IsFunc |-> TRUE, IsGlobal |-> FALSE])]
         IN  compileFunctions(after(compileFunction(r.c, fns[i])), fns, i + 1)

(* Compile: the Artifact (NIL when an error is returned) and the error.    *)
Compile(mod) ==
    LET result(r) ==
            IF r.c.err # "" THEN [artifact |-> NIL, err |-> r.c.err]
            ELSE [artifact |-> [TextBuffer |-> r.c.text,
                                DataBuffer |-> r.c.data,
                                Symbols |-> r.symbols,
                                Relocations |-> r.c.relocations],
                  err |-> ""]
    IN  result(compileFunctions(
                 compileGlobals([c |-> NewCompiler, symbols |-> <<>>],
                                mod.Globals, 1),
                 mod.Functions, 1))

-----------------------------------------------------------------------------
(* codegen: GenerateObject.                                                *)

(* findSymbolIndex without the + 1 for the null symbol.                    *)
findSymbolIndex_zeroBased(symbols, target) ==
    IF \E p \in DOMAIN symbols : symbols[p] = target
    THEN (CHOOSE p \in DOMAIN symbols :
            /\ symbols[p] = target
            /\ \A q \in 1..(p - 1) : symbols[q] # target) - 1
    ELSE 0

(* findSymbolIndex that takes the symbol's address for its index.          *)
findSymbolIndex_byAddress(symbols, target) == target

(* The position of target in symbols, counted from 1 as the source counts  *)
(* (i + 1: the null symbol is entry 0); 0 when it is not there.            *)
findSymbolIndex(symbols, target) ==
    IF \E p \in DOMAIN symbols : symbols[p] = target
    THEN CHOOSE p \in DOMAIN symbols :
           /\ symbols[p] = target
           /\ \A q \in 1..(p - 1) : symbols[q] # target
    ELSE 0

(* The 24 bytes writeRela appends: r_offset, r_info = sym << 32 | type,    *)
(* r_addend.                                                               *)
writeRela(offset, symIdx, relType, addend) ==
    LE(offset, 8) \o LE(relType, 4) \o LE(symIdx, 4) \o IntLE(addend, 8)

(* resolveSymbol that does not record the new symbol in symbolMap.        *)
resolveSymbol_forgets(fl, heap, map, name) ==
    IF name \in DOMAIN map
    THEN [f |-> fl, heap |-> heap, symbolMap |-> map, sym |-> map[name]]
    ELSE LET ext == AddSymbol(fl, heap, name,
                              MakeSymbolInfo(STB_GLOBAL, STT_NOTYPE), NIL,
                              0, 0)
         IN  [f |-> ext.f, heap |-> ext.heap, symbolMap |-> map,
              sym |-> ext.sym]

(* The symbol a relocation against name refers to: the one symbolMap      *)
(* holds, else a new undefined symbol that symbolMap then holds.           *)
resolveSymbol(fl, heap, map, name) ==
    IF name \in DOMAIN map
    THEN [f |-> fl, heap |-> heap, symbolMap |-> map, sym |-> map[name]]
    ELSE LET ext == AddSymbol(fl, heap, name,
                              MakeSymbolInfo(STB_GLOBAL, STT_NOTYPE), NIL,
                              0, 0)
         IN  [f |-> ext.f, heap |-> ext.heap,
              symbolMap |-> (name :> ext.sym) @@ map, sym |-> ext.sym]

(* The loop over artifact.Symbols; st is (f, heap, symbolMap).             *)
RECURSIVE addArtifactSymbols(_, _, _, _)
addArtifactSymbols(st, symbols, l, i) ==
    IF i > Len(symbols) THEN st
    ELSE LET sym == symbols[i]
             section == IF sym.IsFunc THEN l.textSec
                        ELSE IF sym.IsGlobal THEN l.dataSec ELSE NIL
             symType == IF sym.IsFunc THEN STT_FUNC
                        ELSE IF sym.IsGlobal THEN STT_OBJECT ELSE 0
             added(r) == [f |-> r.f, heap |-> r.heap,
                          symbolMap |-> (sym.Name :> r.sym) @@ st.symbolMap]
         IN  addArtifactSymbols(
               added(AddSymbol(st.f, st.heap, sym.Name,
                               MakeSymbolInfo(STB_GLOBAL, symType), section,
                               sym.Offset, sym.Size)),
               symbols, l, i + 1)

-----------------------------------------------------------------------------
(* SpecObj: GenerateObject, step by step, on the modules ObjModule builds. *)

MaxRefs == 3

I32 == [kind |-> "int", bits |-> 32]
Void == [kind |-> "void"]
Ptr == [kind |-> "ptr"]
Nil == [k |-> "nil"]

RetVoid == [k |-> "inst", id |-> 0, ty |-> Void, op |-> "ret", ops |-> <<>>]

(* Instruction number id of a body: a call of f, h or x, or a store to     *)
(* the global g.                                                           *)
RefInst(code, id) ==
    IF code = 4
    THEN [k |-> "inst", id |-> id, ty |-> Void, op |-> "store",
          ops |-> <<[k |-> "const", ty |-> I32, v |-> 7],
                    [k |-> "global", name |-> <<103>>, ty |-> Ptr]>>]
    ELSE [k |-> "inst", id |-> id, ty |-> Void, op |-> "call", ops |-> <<>>,
          CalleeName |-> <<<<102>>, <<104>>, <<120>>>>[code]]

(* Module m: function f with body refs; function h absent (0), declared    *)
(* without blocks (1) or defined as a bare ret (2), before f when hFirst;   *)
(* global g absent (0), an i32 (1) or an empty array (2).                  *)
ObjModule(refs, hKind, hFirst, gKind) ==
    LET fnF == [Name |-> <<102>>, Arguments |-> <<>>,
                Blocks |-> <<[Name |-> "entry",
                              Instructions |->
                                 [i \in 1..Len(refs) |-> RefInst(refs[i], i)]
                                 \o <<RetVoid>>]>>]
        fnH == [Name |-> <<104>>, Arguments |-> <<>>,
                Blocks |-> IF hKind = 2
                           THEN <<[Name |-> "entry",
                                   Instructions |-> <<RetVoid>>]>>
                           ELSE <<>>]
        gType == IF gKind = 1 THEN I32
                 ELSE [kind |-> "array", elem |-> I32, len |-> 0]
    IN  [Name |-> <<109>>,
         Globals |-> IF gKind = 0 THEN <<>>
                     ELSE <<[Name |-> <<103>>, Type |-> gType,
                             Initializer |-> Nil]>>,
         Functions |-> IF hKind = 0 THEN <<fnF>>
                       ELSE IF hFirst THEN <<fnH, fnF>> ELSE <<fnF, fnH>>]

RefSeqs == UNION {[1..n -> 1..4] : n \in 0..MaxRefs}

InitObj ==
    /\ pc = "gen_compile"
    /\ \E refs \in RefSeqs, hKind \in 0..2, hFirst \in BOOLEAN,
          gKind \in 0..2 :
         m = ObjModule(refs, hKind, hFirst, gKind)
    /\ artifact = <<>> /\ f = <<>> /\ symHeap = <<>> /\ symbolMap = <<>>
    /\ relaBuf = <<>> /\ relI = 0 /\ loc = <<>> /\ out = <<>> /\ mach = <<>>
    /\ ret = <<>>

(* Step 1: amd64.Compile.                                                  *)
GenCompile ==
    /\ pc = "gen_compile"
    /\ artifact' = Compile(m)
    /\ pc' = IF artifact'.err # "" THEN "gen_failed" ELSE "gen_sections"
    /\ UNCHANGED <<m, f, symHeap, symbolMap, relaBuf, relI, loc, out,
                   mach, ret>>

(* Steps 2-4: NewFile, .text and, when there is data, .data.               *)
GenSections ==
    /\ pc = "gen_sections"
    /\ LET a == artifact.artifact
           t == AddSection(NewFile, N_text, SHT_PROGBITS,
                           SHF_ALLOC + SHF_EXECINSTR, a.TextBuffer)
           ft == [t.f EXCEPT !.Sections[t.sec].Addralign = 16]
           d == AddSection(ft, N_data, SHT_PROGBITS, SHF_WRITE + SHF_ALLOC,
                           a.DataBuffer)
       IN  IF Len(a.DataBuffer) > 0
           THEN /\ f' = [d.f EXCEPT !.Sections[d.sec].Addralign = 8]
                /\ loc' = [textSec |-> t.sec, dataSec |-> d.sec]
           ELSE /\ f' = ft
                /\ loc' = [textSec |-> t.sec, dataSec |-> NIL]
    /\ pc' = "gen_symbols"
    /\ UNCHANGED <<m, artifact, symHeap, symbolMap, relaBuf, relI, out,
                   mach, ret>>

(* Step 7: the file symbol, the section symbols, the artifact's symbols.   *)
GenSymbols ==
    /\ pc = "gen_symbols"
    /\ LET file == AddSymbol(f, symHeap, m.Name,
                             MakeSymbolInfo(STB_LOCAL, STT_FILE), NIL, 0, 0)
           text == AddSymbol(file.f, file.heap, <<>>,
                             MakeSymbolInfo(STB_LOCAL, STT_SECTION),
                             loc.textSec, 0, 0)
           data == AddSymbol(text.f, text.heap, <<>>,
                             MakeSymbolInfo(STB_LOCAL, STT_SECTION),
                             loc.dataSec, 0, 0)
           st == IF loc.dataSec # NIL
                 THEN [f |-> data.f, heap |-> data.heap,
                       symbolMap |-> (N_data :> data.sym)
                                     @@ (N_text :> text.sym)]
                 ELSE [f |-> text.f, heap |-> text.heap,
                       symbolMap |-> (N_text :> text.sym)]
           r == addArtifactSymbols(st, artifact.artifact.Symbols, loc, 1)
       IN  /\ f' = r.f
           /\ symHeap' = r.heap
           /\ symbolMap' = r.symbolMap
    /\ pc' = IF Len(artifact.artifact.Relocations) > 0 THEN "gen_relocs"
             ELSE "gen_write"
    /\ UNCHANGED <<m, artifact, relaBuf, relI, loc, out, mach, ret>>

(* Step 8, one turn of the loop over artifact.Relocations.                 *)
GenRelocation ==
    /\ pc = "gen_relocs"
    /\ relI < Len(artifact.artifact.Relocations)
    /\ LET rel == artifact.artifact.Relocations[relI + 1]
           r == resolveSymbol(f, symHeap, symbolMap, rel.SymbolName)
       IN  /\ f' = r.f
           /\ symHeap' = r.heap
           /\ symbolMap' = r.symbolMap
           /\ relaBuf' = relaBuf \o writeRela(rel.Offset,
                                              findSymbolIndex(r.f.Symbols,
                                                              r.sym),
                                              rel.Type, rel.Addend)
    /\ relI' = relI + 1
    /\ UNCHANGED <<pc, m, artifact, loc, out, mach, ret>>

(* Step 8, after the loop: the .rela.text section.                         *)
GenRelaSection ==
    /\ pc = "gen_relocs"
    /\ relI = Len(artifact.artifact.Relocations)
    /\ LET r == AddSection(f, N_rela_text, SHT_RELA, SHF_ALLOC, relaBuf)
       IN  /\ f' = [r.f EXCEPT
                      !.Sections[r.sec].Link = Len(r.f.Sections) - 1,
                      !.Sections[r.sec].Info = f.Sections[loc.textSec].Index,
                      !.Sections[r.sec].Entsize = 24,
                      !.Sections[r.sec].Addralign = 8]
           /\ loc' = [relaSec |-> r.sec] @@ loc
    /\ pc' = "gen_write"
    /\ UNCHANGED <<m, artifact, symHeap, symbolMap, relaBuf, relI, out,
                   mach, ret>>

(* Step 9: WriteTo into the buffer GenerateObject returns.                 *)
GenWrite ==
    /\ pc = "gen_write"
    /\ LET r == WriteTo(f, symHeap)
       IN  f' = r.f /\ symHeap' = r.heap /\ out' = r.writes
    /\ pc' = "gen_done"
    /\ UNCHANGED <<m, artifact, symbolMap, relaBuf, relI, loc, mach, ret>>

NextObj ==
    \/ GenCompile
    \/ GenSections
    \/ GenSymbols
    \/ GenRelocation
    \/ GenRelaSection
    \/ GenWrite

SpecObj == InitObj /\ [][NextObj]_vars

-----------------------------------------------------------------------------
(* Properties of GenerateObject (SpecObj).                                 *)

(* The symbol index of record j (from 0) of relocation section r.          *)
R_sym(b, r, j) == U32At(b, Sh_offset(b, r) + 24 * j + 12)

Relocations == artifact.artifact.Relocations

(* The names the module defines: its globals and its functions that have   *)
(* blocks.                                                                 *)
DefinedNames ==
    {m.Globals[i].Name : i \in DOMAIN m.Globals}
      \cup {m.Functions[i].Name :
              i \in {n \in DOMAIN m.Functions : Len(m.Functions[n].Blocks) > 0}}

(* The positions in f.Symbols of the symbols called name.                  *)
EntriesNamed(name) ==
    {i \in DOMAIN f.Symbols : symHeap[f.Symbols[i]].Name = name}

(* C1: in the object GenerateObject returns, the symbol index of every     *)
(* .rela.text record is the position the referenced symbol has in the      *)
(* written .symtab, external symbols appended during the relocation loop   *)
(* included; it is not 0 and is less than the number of entries.           *)
C1_RelaSymbolIndex ==
    pc = "gen_done" /\ Len(Relocations) > 0 =>
      LET b == OutBytes
      IN  /\ Cardinality(SectionsOfType(b, SHT_RELA)) = 1
          /\ Cardinality(SectionsOfType(b, SHT_SYMTAB)) = 1
          /\ \A r \in SectionsOfType(b, SHT_RELA),
                t \in SectionsOfType(b, SHT_SYMTAB) :
               /\ Sh_size(b, r) = 24 * Len(Relocations)
               /\ \A j \in 1..Len(Relocations) :
                    LET sym == symHeap[symbolMap[Relocations[j].SymbolName]]
                        idx == R_sym(b, r, j - 1)
                    IN  /\ idx = sym.symIdx
                        /\ idx # 0
                        /\ idx < Sh_size(b, t) \div 24
                        /\ sym.Name = Relocations[j].SymbolName
                        /\ St_info(b, t, idx) = sym.Info
                        /\ St_value(b, t, idx) = sym.Value
                        /\ St_size(b, t, idx) = sym.Size

(* C1 witness: a returned object with a relocation against a symbol the    *)
(* module defines and one against an external symbol, the external one     *)
(* appended after a defined global symbol.                                 *)
C1_Witness ==
    /\ pc = "gen_done"
    /\ \E i, j \in 1..Len(Relocations) :
         /\ Relocations[i].SymbolName \in DefinedNames
         /\ Relocations[j].SymbolName \notin DefinedNames
         /\ symHeap[symbolMap[Relocations[j].SymbolName]].symIdx
              > symHeap[symbolMap[Relocations[i].SymbolName]].symIdx

(* C2: in the bytes of an object that has relocations, sh_link of the      *)
(* .rela.text header is the index of the .symtab section.                  *)
C2_RelaLinksSymtab ==
    pc = "gen_done" =>
      LET b == OutBytes
      IN  \A r \in SectionsOfType(b, SHT_RELA) :
            Sh_link(b, r) \in SectionsOfType(b, SHT_SYMTAB)

EntriesOfType(b, t, typ) ==
    Cardinality({j \in 1..(Sh_size(b, t) \div 24 - 1) :
                   St_info(b, t, j) % 16 = typ})

(* C10: the symbol list has exactly one STT_FUNC symbol for each function  *)
(* with at least one block, exactly one STT_OBJECT symbol for each global, *)
(* and no defined symbol for a function without blocks.                    *)
C10_SymbolsPerDefinition ==
    pc \in {"gen_relocs", "gen_write", "gen_done"} =>
      /\ \A i \in DOMAIN m.Functions :
           LET fn == m.Functions[i]
               funcs == {e \in EntriesNamed(fn.Name) :
                           symHeap[f.Symbols[e]].Info % 16 = STT_FUNC}
           IN  IF Len(fn.Blocks) > 0
               THEN /\ Cardinality(funcs) = 1
                    /\ \A e \in funcs :
                         symHeap[f.Symbols[e]].Section = loc.textSec
               ELSE \A e \in EntriesNamed(fn.Name) :
                      /\ symHeap[f.Symbols[e]].Section = NIL
                      /\ symHeap[f.Symbols[e]].Info % 16 = STT_NOTYPE
      /\ \A i \in DOMAIN m.Globals :
           Cardinality({e \in EntriesNamed(m.Globals[i].Name) :
                          symHeap[f.Symbols[e]].Info % 16 = STT_OBJECT}) = 1
      /\ pc = "gen_done" =>
           \A t \in SectionsOfType(OutBytes, SHT_SYMTAB) :
             /\ EntriesOfType(OutBytes, t, STT_FUNC)
                  = Cardinality({i \in DOMAIN m.Functions :
                                   Len(m.Functions[i].Blocks) > 0})
             /\ EntriesOfType(OutBytes, t, STT_OBJECT) = Len(m.Globals)

(* C10 witness: a returned object for a module with a defined function, a  *)
(* declared function that is called, and a global.                         *)
C10_Witness ==
    /\ pc = "gen_done"
    /\ Len(m.Globals) > 0
    /\ \E i, j \in DOMAIN m.Functions :
         /\ Len(m.Functions[i].Blocks) > 0
         /\ Len(m.Functions[j].Blocks) = 0
         /\ EntriesNamed(m.Functions[j].Name) # {}

-----------------------------------------------------------------------------
(* SpecFn: Compile on one function f (after an optional function h): any   *)
(* layout of up to MaxBlocks blocks, or a chain of blocks with one of the  *)
(* Probes in one of them.                                                  *)

MaxBlocks == 3

I1 == [kind |-> "int", bits |-> 1]
I64 == [kind |-> "int", bits |-> 64]
I128 == [kind |-> "int", bits |-> 128]
F64 == [kind |-> "float", bits |-> 64]
Pair == [kind |-> "struct", fields |-> <<I32, I64>>, packed |-> FALSE]

ConstInt(ty, v) == [k |-> "const", ty |-> ty, v |-> v]

(* The arguments of f: an i32, a pointer and a double.                     *)
ArgA == [k |-> "arg", id |-> 1, ty |-> I32]
ArgP == [k |-> "arg", id |-> 2, ty |-> Ptr]
ArgX == [k |-> "arg", id |-> 3, ty |-> F64]

Inst(id, ty, op, ops) ==
    [k |-> "inst", id |-> id, ty |-> ty, op |-> op, ops |-> ops]

(* op ArgA, rhs for every op of ops and every rhs of rhss.                 *)
ArithProbes(ops, rhss) ==
    [n \in 1..(Len(ops) * Len(rhss)) |->
       Inst(50, I32, ops[1 + (n - 1) \div Len(rhss)],
            <<ArgA, rhss[1 + ((n - 1) % Len(rhss))]>>)]

Probes ==
    <<[AllocatedType |-> I32, NumElements |-> ArgA]
        @@ Inst(50, Ptr, "alloca", <<>>),
      [AllocatedType |-> I32, NumElements |-> ConstInt(I32, 4)]
        @@ Inst(50, Ptr, "alloca", <<>>),
      [AllocatedType |-> I32, NumElements |-> Nil]
        @@ Inst(50, Ptr, "alloca", <<>>),
      [SourceElementType |-> Pair]
        @@ Inst(50, Ptr, "getelementptr", <<ArgP, ConstInt(I32, 0), ArgA>>),
      [SourceElementType |-> Pair]
        @@ Inst(50, Ptr, "getelementptr",
                <<ArgP, ConstInt(I32, 0), ConstInt(I32, 1)>>),
      [SourceElementType |-> [kind |-> "array", elem |-> I32, len |-> 4]]
        @@ Inst(50, Ptr, "getelementptr", <<ArgP, ConstInt(I32, 0), ArgA>>),
      [Predicate |-> "unknown"] @@ Inst(50, I1, "icmp", <<ArgA, ArgA>>),
      [Predicate |-> "slt"] @@ Inst(50, I1, "icmp", <<ArgA, ArgA>>),
      [Predicate |-> "ueq"] @@ Inst(50, I1, "fcmp", <<ArgX, ArgX>>),
      [Predicate |-> "olt"] @@ Inst(50, I1, "fcmp", <<ArgX, ArgX>>),
      Inst(50, I128, "load", <<ArgP>>),
      Inst(50, [kind |-> "array", elem |-> I1, len |-> 3], "load", <<ArgP>>),
      Inst(50, I32, "load", <<ArgP>>),
      Inst(50, Void, "store", <<ConstInt(I128, 5), ArgP>>),
      Inst(50, Void, "store", <<ConstInt(I32, 5), ArgP>>)>>
      \o ArithProbes(<<"add", "sub", "and", "or", "xor">>,
                     <<ConstInt(I32, -129), ConstInt(I32, -128),
                       ConstInt(I32, 127), ConstInt(I32, 128), ArgA>>)
      \o <<[CalleeName |-> <<104>>] @@ Inst(50, Void, "call", <<>>),
           Inst(50, Void, "store",
                <<ConstInt(I32, 7),
                  [k |-> "global", name |-> <<103>>, ty |-> Ptr]>>)>>

(* The probes that leave a relocation: a call of h and a store to the      *)
(* global g.                                                               *)
RelocProbes ==
    {p \in DOMAIN Probes :
       \/ Probes[p].op = "call"
       \/ Probes[p].op = "store" /\ Probes[p].ops[2].k = "global"}

(* The terminator <<kind, t1, t2, t3>> of block b: ret b, br t1,           *)
(* condbr 1, t1, t2 or switch 1 [-1: t1, 300: t2] default t3.              *)
Terminator(term, b) ==
    CASE term[1] = 0 -> Inst(100 + b, Void, "ret", <<ConstInt(I32, b)>>)
      [] term[1] = 1 -> [Target |-> term[2]] @@ Inst(100 + b, Void, "br", <<>>)
      [] term[1] = 2 -> [Condition |-> ConstInt(I1, 1), TrueBlock |-> term[2],
                         FalseBlock |-> term[3]]
                          @@ Inst(100 + b, Void, "condbr", <<>>)
      [] OTHER -> [Condition |-> ConstInt(I32, 1),
                   Cases |-> <<[Value |-> -1, Block |-> term[2]],
                               [Value |-> 300, Block |-> term[3]]>>,
                   DefaultBlock |-> term[4]]
                    @@ Inst(100 + b, Void, "switch", <<>>)

Terminators(n) ==
    {<<0, 0, 0>>} \cup {<<1, t, 0>> : t \in 1..n}
      \cup {<<2, t[1], t[2]>> : t \in {x \in (1..n) \X (1..n) : x[1] < x[2]}}

(* A switch to any three of n blocks.                                      *)
Switches(n) == {<<3, t[1], t[2], t[3]>> : t \in (1..n) \X (1..n) \X (1..n)}

(* Terminators with a target n + 1 that is no block of the function.       *)
Dangling(n) ==
    {<<1, n + 1, 0>>, <<2, 1, n + 1>>, <<2, n + 1, 1>>, <<3, 1, 1, n + 1>>,
     <<3, n + 1, 1, 1>>}

(* Block b jumps to block b + 1, the last one returns.                     *)
Chain(n) == [b \in 1..n |-> IF b = n THEN <<0, 0, 0>> ELSE <<1, b + 1, 0>>]

FnModule(terms, probe, probeBlock, hasOther) ==
    LET fnF == [Name |-> <<102>>,
                Arguments |-> IF probe = 0 THEN <<>>
                              ELSE <<ArgA, ArgP, ArgX>>,
                Blocks |-> [b \in 1..Len(terms) |->
                   [Name |-> "b",
                    Instructions |->
                       (IF probe # 0 /\ probeBlock = b THEN <<Probes[probe]>>
                        ELSE <<>>) \o <<Terminator(terms[b], b)>>]]]
        fnH == [Name |-> <<104>>, Arguments |-> <<>>,
                Blocks |-> <<[Name |-> "entry",
                              Instructions |-> <<RetVoid>>]>>]
    IN  [Name |-> <<109>>, Globals |-> <<>>,
         Functions |-> IF hasOther THEN <<fnH, fnF>> ELSE <<fnF>>]

(* The module of buildMemoryOps: main allocates an i32, stores 99 to it,    *)
(* loads it back and returns it.                                           *)
MemoryOps ==
    LET ptr == [k |-> "inst", id |-> 50, ty |-> Ptr]
        loaded == [k |-> "inst", id |-> 52, ty |-> I32]
    IN  [Name |-> <<109>>, Globals |-> <<>>,
         Functions |->
           <<[Name |-> <<109, 97, 105, 110>>, Arguments |-> <<>>,
              Blocks |->
                <<[Name |-> "entry",
                   Instructions |->
                     <<[AllocatedType |-> I32, NumElements |-> Nil]
                         @@ Inst(50, Ptr, "alloca", <<>>),
                       Inst(51, Void, "store", <<ConstInt(I32, 99), ptr>>),
                       Inst(52, I32, "load", <<ptr>>),
                       Inst(53, Void, "ret", <<loaded>>)>>]>>]>>]

InitFn ==
    /\ pc = "fn_compile"
    /\ \E n \in 1..MaxBlocks, hasOther \in BOOLEAN :
         \/ \E terms \in [1..n -> Terminators(n)] :
              m = FnModule(terms, 0, 0, hasOther)
         \/ \E probe \in 1..Len(Probes), probeBlock \in 1..n :
              m = FnModule(Chain(n), probe, probeBlock, hasOther)
         \/ \E b \in 1..n, term \in Switches(n) \cup Dangling(n) :
              m = FnModule([Chain(n) EXCEPT ![b] = term], 0, 0, hasOther)
         \/ \E b \in 1..n, term \in Terminators(n), probe \in RelocProbes :
              m = FnModule([Chain(n) EXCEPT ![b] = term], probe, b, hasOther)
         \/ m = MemoryOps
    /\ artifact = <<>> /\ f = <<>> /\ symHeap = <<>> /\ symbolMap = <<>>
    /\ relaBuf = <<>> /\ relI = 0 /\ loc = <<>> /\ out = <<>> /\ mach = <<>>
    /\ ret = <<>>

FnCompile ==
    /\ pc = "fn_compile"
    /\ artifact' = Compile(m)
    /\ pc' = "fn_done"
    /\ UNCHANGED <<m, f, symHeap, symbolMap, relaBuf, relI, loc, out,
                   mach, ret>>

NextFn == FnCompile

SpecFn == InitFn /\ [][NextFn]_vars

-----------------------------------------------------------------------------
(* Properties of Compile (SpecFn).                                         *)

(* The bytes of the function symbol sym in the artifact's text.            *)
FunctionBytes(sym) == Slice(artifact.artifact.TextBuffer, sym.Offset, sym.Size)

FunctionSymbols ==
    {i \in DOMAIN artifact.artifact.Symbols : artifact.artifact.Symbols[i].IsFunc}

(* The function of m called name.                                          *)
FunctionNamed(name) ==
    m.Functions[CHOOSE i \in DOMAIN m.Functions : m.Functions[i].Name = name]

LastInstruction(fn) == Insts(fn)[Len(Insts(fn))]

BeginsWithPrologue(b) == Len(b) >= 4 /\ SubSeq(b, 1, 4) = <<85, 72, 137, 229>>
EndsWithEpilogue(b) == Len(b) >= 2 /\ SubSeq(b, Len(b) - 1, Len(b)) = <<201, 195>>

(* C7, as stated: the bytes of every compiled function begin with          *)
(* 55 48 89 E5 and end with C9 C3, whatever the layout of its blocks.      *)
C7_PrologueAndEpilogue ==
    pc = "fn_done" /\ artifact.err = "" =>
      \A i \in FunctionSymbols :
        /\ BeginsWithPrologue(FunctionBytes(artifact.artifact.Symbols[i]))
        /\ EndsWithEpilogue(FunctionBytes(artifact.artifact.Symbols[i]))

(* C7, amended: the bytes of every compiled function begin with            *)
(* 55 48 89 E5; they end with C9 C3 when the last block in layout order    *)
(* ends with a ret, and with the rel32 of a jump when it ends with a       *)
(* branch.                                                                 *)
C7_PrologueAndLastBlock ==
    pc = "fn_done" /\ artifact.err = "" =>
      \A i \in FunctionSymbols :
        LET sym == artifact.artifact.Symbols[i]
            last == LastInstruction(FunctionNamed(sym.Name))
        IN  /\ BeginsWithPrologue(FunctionBytes(sym))
            /\ last.op = "ret" => EndsWithEpilogue(FunctionBytes(sym))
            /\ last.op \in {"br", "condbr"} =>
                 /\ ~EndsWithEpilogue(FunctionBytes(sym))
                 /\ FunctionBytes(sym)[Len(FunctionBytes(sym)) - 4] = 233

(* C7 witness: a compiled three-block function whose entry jumps to the    *)
(* last block, whose last block jumps back to the middle one, which        *)
(* returns; it lies after another function.                                *)
C7_Witness ==
    /\ pc = "fn_done" /\ artifact.err = ""
    /\ \E i \in FunctionSymbols :
         LET sym == artifact.artifact.Symbols[i]
             fn == FunctionNamed(sym.Name)
         IN  /\ sym.Offset > 0
             /\ Len(fn.Blocks) = 3
             /\ fn.Blocks[1].Instructions[1].op = "br"
             /\ fn.Blocks[1].Instructions[1].Target = 3
             /\ fn.Blocks[2].Instructions[1].op = "ret"
             /\ fn.Blocks[3].Instructions[1].op = "br"
             /\ fn.Blocks[3].Instructions[1].Target = 2

(* The instruction shapes the lowering cannot encode.                      *)
Unencodable(inst) ==
    CASE inst.op = "alloca" -> inst.NumElements.k \notin {"nil", "const"}
      [] inst.op = "getelementptr" ->
            /\ inst.SourceElementType.kind = "struct"
            /\ Len(inst.ops) >= 3
            /\ inst.ops[3].k # "const"
      [] inst.op = "icmp" ->
            inst.Predicate \notin {"eq", "ne", "slt", "sle", "sgt", "sge",
                                   "ult", "ule", "ugt", "uge"}
      [] inst.op = "fcmp" ->
            inst.Predicate \notin {"oeq", "one", "olt", "ole", "ogt", "oge"}
      [] inst.op = "load" -> SizeOf(inst.ty) \notin {1, 2, 4, 8}
      [] inst.op = "store" -> SizeOf(inst.ops[1].ty) \notin {1, 2, 4, 8}
      [] OTHER -> FALSE

HasUnencodable ==
    \E i \in DOMAIN m.Functions :
      \E j \in DOMAIN Insts(m.Functions[i]) :
        Unencodable(Insts(m.Functions[i])[j])

-----------------------------------------------------------------------------
(* Running the compiled code: the x86-64 instructions the compiler emits,  *)
(* executed on the artifact's text.  A general register holds 8 bytes,     *)
(* least significant first; rsp, rbp and rip are numbers.  What a linker   *)
(* does with a PLT32 relocation against a function of the same object is   *)
(* done at the call: the call lands on the symbol's offset.                *)

(* The stack occupies the addresses StackTop \div 2 .. StackTop - 1; its   *)
(* top is 16-byte aligned, as the ABI has it at process entry.             *)
StackParagraphs == 64
StackTop == 16 * StackParagraphs
HaltAddress == 4 * StackTop - 1

(* The value of a little-endian byte string below 2^24, else -1.           *)
NatOf(bs) ==
    IF \E i \in 4..Len(bs) : bs[i] # 0 THEN -1
    ELSE bs[1] + 256 * bs[2] + 65536 * bs[3]

(* The signed 32-bit value at offset off of b.                             *)
S32At(b, off) ==
    IF b[off + 4] >= 128
    THEN -(1 + (255 - b[off + 1]) + 256 * (255 - b[off + 2])
             + 65536 * (255 - b[off + 3]) + 16777216 * (255 - b[off + 4]))
    ELSE U32At(b, off)

(* x + y on byte strings of one length, carry in c, the carry out dropped. *)
RECURSIVE AddBytes(_, _, _)
AddBytes(x, y, c) ==
    IF x = <<>> THEN <<>>
    ELSE <<(Head(x) + Head(y) + c) % 256>>
           \o AddBytes(Tail(x), Tail(y), (Head(x) + Head(y) + c) \div 256)

(* x < y on byte strings of one length, as unsigned or as two's complement *)
(* signed numbers.                                                         *)
Less(x, y, signed) ==
    LET n == Len(x)
        top(z) == IF signed THEN (z[n] + 128) % 256 ELSE z[n]
        key(z, i) == IF i = n THEN top(z) ELSE z[i]
    IN  \E i \in 1..n :
          /\ key(x, i) < key(y, i)
          /\ \A j \in (i + 1)..n : key(x, j) = key(y, j)

MemRead(mem, addr, n) == [i \in 1..n |-> mem[addr + i - 1]]

MemWrite(mem, addr, bs) ==
    [a \in DOMAIN mem |->
       IF a >= addr /\ a < addr + Len(bs) THEN bs[a - addr + 1] ELSE mem[a]]

(* The machine about to run the function at entry, called from a frame     *)
(* that returns to HaltAddress; registers and stack hold junk.             *)
InitialMachine(entry, junk) ==
    [rip |-> entry, rsp |-> StackTop - 8, rbp |-> 0,
     regs |-> [r \in 0..15 |-> [i \in 1..8 |-> junk]],
     xmm |-> [x \in 0..7 |-> [i \in 1..8 |-> junk]],
     cmp |-> <<Zeros(8), Zeros(8)>>,
     mem |-> MemWrite([a \in (StackTop \div 2)..(StackTop - 1) |-> junk],
                      StackTop - 8, LE(HaltAddress, 8)),
     halted |-> FALSE, fault |-> FALSE]

(* The condition of setcc / jcc code cc on the operands of the last cmp    *)
(* or test.                                                                *)
Condition(cc, x, y) ==
    CASE cc = 4 -> x = y
      [] cc = 5 -> x # y
      [] cc = 12 -> Less(x, y, TRUE)
      [] cc = 14 -> Less(x, y, TRUE) \/ x = y
      [] cc = 15 -> Less(y, x, TRUE)
      [] cc = 13 -> ~Less(x, y, TRUE)
      [] cc = 2 -> Less(x, y, FALSE)
      [] cc = 6 -> Less(x, y, FALSE) \/ x = y
      [] cc = 7 -> Less(y, x, FALSE)
      [] cc = 3 -> ~Less(x, y, FALSE)
      [] OTHER -> FALSE

(* One instruction of text a.TextBuffer on machine s.                      *)
Step(a, s) ==
    LET T == a.TextBuffer
        B(i) == T[s.rip + 1 + i]
        rex == IF B(0) \in 64..79 THEN B(0) ELSE 0
        o == IF rex = 0 THEN 0 ELSE 1
        W == rex >= 72
        R == IF ((rex \div 4) % 2) = 1 THEN 8 ELSE 0
        op == B(o)
        modrm == B(o + 1)
        reg == ((modrm \div 8) % 8) + R
        onFrame == (modrm \div 64) = 2 /\ (modrm % 8) = 5
        addr == s.rbp + S32At(T, s.rip + o + 2)
        next(n) == s.rip + o + n
        fault == [s EXCEPT !.halted = TRUE, !.fault = TRUE]
        jump(target) ==
            IF target = HaltAddress THEN [s EXCEPT !.halted = TRUE]
            ELSE IF target < 0 \/ target >= Len(T) THEN fault
            ELSE [s EXCEPT !.rip = target]
        callee == {i \in DOMAIN a.Symbols :
                     /\ a.Symbols[i].IsFunc
                     /\ \E j \in DOMAIN a.Relocations :
                          /\ a.Relocations[j].Offset = s.rip + 1
                          /\ a.Relocations[j].SymbolName = a.Symbols[i].Name}
    IN  CASE rex = 0 /\ op = 85 ->
               [s EXCEPT !.rsp = @ - 8, !.rip = next(1),
                         !.mem = MemWrite(@, s.rsp - 8, LE(s.rbp, 8))]
          [] rex = 0 /\ op = 80 ->
               [s EXCEPT !.rsp = @ - 8, !.rip = next(1),
                         !.mem = MemWrite(@, s.rsp - 8, s.regs[RAX])]
          [] W /\ op = 137 /\ modrm = 229 ->
               [s EXCEPT !.rbp = s.rsp, !.rip = next(2)]
          [] W /\ op \in {131, 129} /\ modrm \in {236, 196} ->
               LET imm == IF op = 131 THEN B(o + 2)
                          ELSE S32At(T, s.rip + o + 2)
               IN  [s EXCEPT !.rsp = IF modrm = 236 THEN @ - imm ELSE @ + imm,
                             !.rip = next(IF op = 131 THEN 3 ELSE 6)]
          [] op = 137 /\ onFrame ->
               [s EXCEPT !.rip = next(6),
                         !.mem = MemWrite(@, addr,
                                   SubSeq(s.regs[reg], 1,
                                          IF W THEN 8 ELSE 4))]
          [] op = 136 /\ onFrame ->
               [s EXCEPT !.rip = next(6),
                         !.mem = MemWrite(@, addr, SubSeq(s.regs[reg], 1, 1))]
          [] op = 139 /\ onFrame ->
               [s EXCEPT !.rip = next(6),
                         !.regs[reg] =
                            IF W THEN MemRead(s.mem, addr, 8)
                            ELSE MemRead(s.mem, addr, 4) \o Zeros(4)]
          [] op = 15 /\ modrm = 182 /\ (B(o + 2) \div 64) = 2
               /\ (B(o + 2) % 8) = 5 ->
               [s EXCEPT !.rip = next(7),
                         !.regs[((B(o + 2) \div 8) % 8) + R] =
                            MemRead(s.mem, s.rbp + S32At(T, s.rip + o + 3), 1)
                              \o Zeros(7)]
          [] rex = 0 /\ op = 15 /\ modrm = 87 /\ B(o + 2) >= 192
               /\ ((B(o + 2) \div 8) % 8) = (B(o + 2) % 8) ->
               [s EXCEPT !.rip = next(3),
                         !.xmm[B(o + 2) % 8] = Zeros(8)]
          [] W /\ op = 15 /\ modrm = 182 /\ B(o + 2) = 192 ->
               [s EXCEPT !.rip = next(3),
                         !.regs[RAX] = <<s.regs[RAX][1]>> \o Zeros(7)]
          [] rex = 0 /\ op = 15 /\ modrm \in 144..159 /\ B(o + 2) = 192 ->
               [s EXCEPT !.rip = next(3),
                         !.regs[RAX][1] =
                            IF Condition(modrm - 144, s.cmp[1], s.cmp[2])
                            THEN 1 ELSE 0]
          [] rex = 0 /\ op = 15 /\ modrm = 133 ->
               IF Condition(5, s.cmp[1], s.cmp[2])
               THEN jump(next(6) + S32At(T, s.rip + 2))
               ELSE [s EXCEPT !.rip = next(6)]
          [] W /\ op \in 184..191 ->
               [s EXCEPT !.rip = next(9),
                         !.regs[op - 184 + (IF (rex % 2) = 1 THEN 8 ELSE 0)] =
                            SubSeq(T, s.rip + 3, s.rip + 10)]
          [] W /\ op = 49 /\ (modrm \div 64) = 3
               /\ ((modrm \div 8) % 8) = (modrm % 8)
               /\ ((rex \div 4) % 2) = (rex % 2) ->
               [s EXCEPT !.rip = next(2), !.regs[reg] = Zeros(8)]
          [] W /\ op \in {131, 129} /\ modrm = 192 ->
               [s EXCEPT !.rip = next(IF op = 131 THEN 3 ELSE 6),
                         !.regs[RAX] =
                            AddBytes(@, IntLE(IF op = 131
                                              THEN IF B(o + 2) >= 128
                                                   THEN B(o + 2) - 256
                                                   ELSE B(o + 2)
                                              ELSE S32At(T, s.rip + o + 2),
                                              8), 0)]
          [] W /\ op = 1 /\ modrm = 200 ->
               [s EXCEPT !.rip = next(2),
                         !.regs[RAX] = AddBytes(@, s.regs[RCX], 0)]
          [] W /\ op = 57 /\ modrm = 200 ->
               [s EXCEPT !.rip = next(2),
                         !.cmp = <<s.regs[RAX], s.regs[RCX]>>]
          [] W /\ op = 133 /\ modrm = 192 ->
               [s EXCEPT !.rip = next(2), !.cmp = <<s.regs[RAX], Zeros(8)>>]
          [] rex = 0 /\ op = 233 -> jump(next(5) + S32At(T, s.rip + 1))
          [] rex = 0 /\ op = 232 ->
               IF callee = {} THEN fault
               ELSE [s EXCEPT !.rsp = @ - 8,
                              !.mem = MemWrite(@, s.rsp - 8, LE(next(5), 8)),
                              !.rip = a.Symbols[CHOOSE i \in callee : TRUE]
                                        .Offset]
          [] rex = 0 /\ op = 201 ->
               [s EXCEPT !.rsp = s.rbp + 8, !.rip = next(1),
                         !.rbp = NatOf(MemRead(s.mem, s.rbp, 8))]
          [] rex = 0 /\ op = 195 ->
               [jump(NatOf(MemRead(s.mem, s.rsp, 8))) EXCEPT !.rsp = @ + 8]
          [] OTHER -> fault

-----------------------------------------------------------------------------
(* SpecRun: the programs of examples/test_codegen.go that pass arguments   *)
(* on the stack and that merge values with a phi, compiled and then run.   *)

MaxArgs == 8

N_main == <<109, 97, 105, 110>>
N_sum == <<115, 117, 109>>

(* An operand that refers to the value v.                                  *)
Ref(v) == [k |-> v.k, id |-> v.id, ty |-> v.ty]

(* The value main passes as argument i (1-based): 1..6 in registers, then  *)
(* 21, 22, ... on the stack.                                               *)
ArgValue(i) == IF i <= 6 THEN i ELSE 14 + i

RECURSIVE SumTo(_)
SumTo(k) == IF k = 0 THEN 0 ELSE SumTo(k - 1) + ArgValue(k)

SumArg(i) == [k |-> "arg", id |-> i, ty |-> I32]

(* sum(a1, ..., ak) = a1 + ... + ak as a chain of adds.                    *)
SumFn(k) ==
    LET add(j) == Inst(10 + j, I32, "add",
                       <<IF j = 1 THEN SumArg(1)
                         ELSE [k |-> "inst", id |-> 9 + j, ty |-> I32],
                         SumArg(j + 1)>>)
    IN  [Name |-> N_sum,
         Arguments |-> [i \in 1..k |-> SumArg(i)],
         Blocks |-> <<[Name |-> "entry",
                       Instructions |->
                          [j \in 1..(k - 1) |-> add(j)]
                          \o <<Inst(30, Void, "ret",
                                    <<IF k = 1 THEN SumArg(1)
                                      ELSE Ref(add(k - 1))>>)>>]>>]

(* main returns sum(ArgValue(1), ..., ArgValue(k)).                        *)
CallModule(k) ==
    LET call == [CalleeName |-> N_sum]
                  @@ Inst(1, I32, "call",
                          [i \in 1..k |-> ConstInt(I32, ArgValue(i))])
    IN  [Name |-> <<109>>, Globals |-> <<>>,
         Functions |->
           <<SumFn(k),
             [Name |-> N_main, Arguments |-> <<>>,
              Blocks |-> <<[Name |-> "entry",
                            Instructions |->
                               <<call,
                                 Inst(2, Void, "ret", <<Ref(call)>>)>>]>>]>>]

(* main returns 10 when a > b and 20 otherwise, through a phi.             *)
PhiModule(a, b) ==
    LET cond == [Predicate |-> "sgt"]
                  @@ Inst(1, I1, "icmp", <<ConstInt(I32, a), ConstInt(I32, b)>>)
        br(id) == [Target |-> 4] @@ Inst(id, Void, "br", <<>>)
        phi == [Incoming |-> <<[Value |-> ConstInt(I32, 10), Block |-> 2],
                               [Value |-> ConstInt(I32, 20), Block |-> 3]>>]
                 @@ Inst(5, I32, "phi", <<>>)
    IN  [Name |-> <<109>>, Globals |-> <<>>,
         Functions |->
           <<[Name |-> N_main, Arguments |-> <<>>,
              Blocks |->
                <<[Name |-> "entry",
                   Instructions |->
                      <<cond,
                        [Condition |-> Ref(cond), TrueBlock |-> 2,
                         FalseBlock |-> 3] @@ Inst(2, Void, "condbr", <<>>)>>],
                  [Name |-> "then", Instructions |-> <<br(3)>>],
                  [Name |-> "else", Instructions |-> <<br(4)>>],
                  [Name |-> "merge",
                   Instructions |->
                      <<phi, Inst(6, Void, "ret", <<Ref(phi)>>)>>]>>]>>]

(* The operand values and the signed predicates of the comparisons.       *)
CmpValues == {-2, 0, 3}
SignedPredicates == {"slt", "sle", "sgt", "sge"}

(* main computes x = a + 0 and y = b + 0 into 4-byte slots and returns     *)
(* icmp pred p, q, where p is x (fromSlot[1]) or the constant a, and q is  *)
(* y (fromSlot[2]) or the constant b.                                      *)
CmpModule(pred, a, b, fromSlot) ==
    LET x == Inst(1, I32, "add", <<ConstInt(I32, a), ConstInt(I32, 0)>>)
        y == Inst(2, I32, "add", <<ConstInt(I32, b), ConstInt(I32, 0)>>)
        cmp == [Predicate |-> pred]
                 @@ Inst(3, I1, "icmp",
                         <<IF fromSlot[1] THEN Ref(x) ELSE ConstInt(I32, a),
                           IF fromSlot[2] THEN Ref(y) ELSE ConstInt(I32, b)>>)
    IN  [Name |-> <<109>>, Globals |-> <<>>,
         Functions |->
           <<[Name |-> N_main, Arguments |-> <<>>,
              Blocks |-> <<[Name |-> "entry",
                            Instructions |->
                               <<x, y, cmp,
                                 Inst(4, Void, "ret", <<Ref(cmp)>>)>>]>>]>>]

N_mix == <<109, 105, 120>>

(* The parameter lists of mix: "f" a double, "i" an i32; the last is an   *)
(* i32.                                                                    *)
MixedSignatures ==
    {<<"f", "i">>, <<"i", "f", "i">>, <<"f", "f", "i">>,
     <<"i", "i", "f", "i">>}

MixArg(kinds, i) ==
    [k |-> "arg", id |-> i, ty |-> IF kinds[i] = "f" THEN F64 ELSE I32]

(* mix(...) returns its last parameter, an i32.                            *)
MixFn(kinds) ==
    [Name |-> N_mix,
     Arguments |-> [i \in 1..Len(kinds) |-> MixArg(kinds, i)],
     Blocks |-> <<[Name |-> "entry",
                   Instructions |->
                      <<Inst(30, Void, "ret",
                             <<MixArg(kinds, Len(kinds))>>)>>]>>]

(* main returns mix(...), passing ArgValue(i) for an i32 at position i and *)
(* an undefined double, which the caller loads as 0.0, for a double.       *)
MixModule(kinds) ==
    LET call == [CalleeName |-> N_mix]
                  @@ Inst(1, I32, "call",
                          [i \in 1..Len(kinds) |->
                             IF kinds[i] = "f"
                             THEN [k |-> "undef", id |-> 0, ty |-> F64]
                             ELSE ConstInt(I32, ArgValue(i))])
    IN  [Name |-> <<109>>, Globals |-> <<>>,
         Functions |->
           <<MixFn(kinds),
             [Name |-> N_main, Arguments |-> <<>>,
              Blocks |-> <<[Name |-> "entry",
                            Instructions |->
                               <<call,
                                 Inst(2, Void, "ret", <<Ref(call)>>)>>]>>]>>]

(* The offset of the function called name in artifact a.                   *)
EntryOf(a, name) ==
    a.Symbols[CHOOSE i \in DOMAIN a.Symbols :
                a.Symbols[i].IsFunc /\ a.Symbols[i].Name = name].Offset

InitRun ==
    /\ pc = "run_compile"
    /\ \E junk \in {0, 170} :
         \/ \E k \in 1..MaxArgs :
              /\ m = CallModule(k)
              /\ loc = [prog |-> "call", k |-> k, junk |-> junk]
         \/ \E ab \in {<<5, 3>>, <<3, 5>>} :
              /\ m = PhiModule(ab[1], ab[2])
              /\ loc = [prog |-> "phi", taken |-> IF ab[1] > ab[2] THEN 2 ELSE 3,
                        junk |-> junk]
         \/ \E pred \in SignedPredicates, a \in CmpValues, b \in CmpValues,
               fromSlot \in BOOLEAN \X BOOLEAN :
              /\ m = CmpModule(pred, a, b, fromSlot)
              /\ loc = [prog |-> "icmp", pred |-> pred, a |-> a, b |-> b,
                        junk |-> junk]
         \/ \E kinds \in MixedSignatures :
              /\ m = MixModule(kinds)
              /\ loc = [prog |-> "mix", kinds |-> kinds, junk |-> junk]
    /\ artifact = <<>> /\ f = <<>> /\ symHeap = <<>> /\ symbolMap = <<>>
    /\ relaBuf = <<>> /\ relI = 0 /\ out = <<>> /\ mach = <<>>
    /\ ret = <<>>

(* Compile the module and enter main.                                      *)
RunLoad ==
    /\ pc = "run_compile"
    /\ artifact' = Compile(m)
    /\ IF artifact'.err # ""
       THEN pc' = "run_rejected" /\ mach' = mach
       ELSE /\ pc' = "run_exec"
            /\ mach' = InitialMachine(EntryOf(artifact'.artifact, N_main),
                                      loc.junk)
    /\ UNCHANGED <<m, f, symHeap, symbolMap, relaBuf, relI, loc, out, ret>>

(* Execute one instruction.                                                *)
RunStep ==
    /\ pc = "run_exec"
    /\ mach' = Step(artifact.artifact, mach)
    /\ pc' = IF mach'.halted THEN "run_done" ELSE "run_exec"
    /\ UNCHANGED <<m, artifact, f, symHeap, symbolMap, relaBuf, relI, loc,
                   out, ret>>

NextRun == RunLoad \/ RunStep

SpecRun == InitRun /\ [][NextRun]_vars

-----------------------------------------------------------------------------
(* Properties of the running code (SpecRun).                               *)

(* The machine is about to execute the leave of the function called name.  *)
AtLeaveOf(name) ==
    /\ pc = "run_exec"
    /\ artifact.artifact.TextBuffer[mach.rip + 1] = 201
    /\ \E i \in DOMAIN artifact.artifact.Symbols :
         LET sym == artifact.artifact.Symbols[i]
         IN  /\ sym.IsFunc /\ sym.Name = name
             /\ mach.rip >= sym.Offset /\ mach.rip < sym.Offset + sym.Size

(* The frame offset compileFunction gives value v of function fn.          *)
SlotOf(fn, v) == Slots(fn).stackMap[Key(v)]

(* The 4 bytes of the current frame at offset off.                         *)
FrameWord(off) == MemRead(mach.mem, mach.rbp + off, 4)

ReturnedWord == SubSeq(mach.regs[RAX], 1, 4)

(* C6: every argument at position i >= 6 that the callee copied from       *)
(* [rbp + 16 + 8*(i-6)] into its slot is the value the caller passed at    *)
(* position i, and main returns the sum of what it passed (42 for          *)
(* sum(1,2,3,4,5,6,21)).                                                   *)
C6_StackArgumentsArrive ==
    loc.prog = "call" =>
      /\ AtLeaveOf(N_sum) =>
           \A i \in 6..(loc.k - 1) :
              FrameWord(SlotOf(SumFn(loc.k), SumArg(i + 1)))
                = LE(ArgValue(i + 1), 4)
      /\ pc = "run_done" =>
           ~mach.fault /\ ReturnedWord = LE(SumTo(loc.k), 4)

(* C5: in the block entered from the then or the else block, the slot of   *)
(* the phi holds the value listed for that predecessor, and main returns   *)
(* it (10 for if (5 > 3) 10 else 20).                                      *)
C5_PhiHoldsIncoming ==
    loc.prog = "phi" =>
      LET fn == m.Functions[1]
          phi == fn.Blocks[4].Instructions[1]
          incoming == CHOOSE e \in {phi.Incoming[j] : j \in 1..2} :
                        e.Block = loc.taken
      IN  /\ AtLeaveOf(N_main) =>
                FrameWord(SlotOf(fn, phi)) = LE(incoming.Value.v, 4)
          /\ pc = "run_done" =>
                ~mach.fault /\ ReturnedWord = LE(incoming.Value.v, 4)

(* The frame size compileFunction gives fn: its slots and alloca storage,  *)
(* rounded up to 16.                                                       *)
FrameSize(fn) == AlignUp(allocaStorage(Insts(fn), 1, Slots(fn).offset), 16)

(* The machine is about to execute a call instruction.                     *)
AtCall ==
    /\ pc = "run_exec"
    /\ artifact.artifact.TextBuffer[mach.rip + 1] = 232

(* C11: main being entered with rsp = 8 (mod 16), rsp is a multiple of 16  *)
(* at every call instruction, whatever the number of register and stack    *)
(* arguments, and once the call has returned and the arguments are popped  *)
(* rsp is back where it was before they were marshalled: at the bottom of  *)
(* main's frame.                                                           *)
C11_StackAlignedAtCall ==
    loc.prog = "call" =>
      /\ AtCall => mach.rsp % 16 = 0
      /\ AtLeaveOf(N_main) =>
           mach.rsp = mach.rbp - FrameSize(m.Functions[2])

(* main is at the call of sum with one argument pushed and the padding     *)
(* word below it.                                                          *)
C11_Witness ==
    /\ loc.prog = "call" /\ loc.k = 7
    /\ AtCall
    /\ mach.rsp % 16 = 0
    /\ mach.rsp = mach.rbp - FrameSize(m.Functions[2]) - 16

(* C26: icmp with a signed predicate on two i32 operands stores 1 exactly  *)
(* when the comparison holds for the operands read as signed 32-bit        *)
(* integers, whether an operand is a constant or is loaded from its 4-byte *)
(* slot, negative values included; main returns that byte.                 *)
C26_SignedCompare ==
    loc.prog = "icmp" =>
      LET holds == CASE loc.pred = "slt" -> loc.a < loc.b
                     [] loc.pred = "sle" -> loc.a <= loc.b
                     [] loc.pred = "sgt" -> loc.a > loc.b
                     [] loc.pred = "sge" -> loc.a >= loc.b
          cmp == m.Functions[1].Blocks[1].Instructions[3]
      IN  /\ AtLeaveOf(N_main) =>
                MemRead(mach.mem, mach.rbp + SlotOf(m.Functions[1], cmp), 1)
                  = <<IF holds THEN 1 ELSE 0>>
          /\ pc = "run_done" =>
                ~mach.fault /\ mach.regs[RAX][1] = (IF holds THEN 1 ELSE 0)

(* C23: in a direct call whose parameters mix doubles and integers, all    *)
(* passed in registers, the callee's emitArgSave stores into every         *)
(* parameter's slot the value the caller placed for it: the integer        *)
(* ArgValue(i) that went into the next of rdi, rsi, ... counted among the  *)
(* integer arguments only, the double 0.0 that went into the next of xmm0, *)
(* xmm1, ...                                                               *)
C23_MixedArgumentsArrive ==
    loc.prog = "mix" /\ AtLeaveOf(N_mix) =>
      \A i \in 1..Len(loc.kinds) :
         LET off == SlotOf(MixFn(loc.kinds), MixArg(loc.kinds, i))
         IN  IF loc.kinds[i] = "f"
             THEN MemRead(mach.mem, mach.rbp + off, 8) = Zeros(8)
             ELSE FrameWord(off) = LE(ArgValue(i), 4)

-----------------------------------------------------------------------------
(* SpecStr: Add called on the string table of a new file, any strings in   *)
(* any order; loc.calls keeps, per call, the string, the offset returned   *)
(* and the length of Data before and after.                                *)

MaxAdds == 4

AddedStrings == {<<>>, <<97>>, <<98>>, <<97, 98>>}

InitStr ==
    /\ pc = "str_add"
    /\ f = NewFile
    /\ loc = [calls |-> <<>>]
    /\ symHeap = <<>> /\ out = <<>>
    /\ m = <<>> /\ artifact = <<>> /\ symbolMap = <<>> /\ relaBuf = <<>>
    /\ relI = 0 /\ mach = <<>>
    /\ ret = <<>>

StrTabAdd ==
    /\ pc = "str_add"
    /\ Len(loc.calls) < MaxAdds
    /\ \E s \in AddedStrings :
         LET r == StrAdd(f.StrTab, s)
         IN  /\ f' = [f EXCEPT !.StrTab = r.st]
             /\ loc' = [calls |-> Append(loc.calls,
                                         [s |-> s, idx |-> r.idx,
                                          before |-> Len(f.StrTab.Data),
                                          after |-> Len(r.st.Data)])]
    /\ UNCHANGED <<pc, m, artifact, symHeap, symbolMap, relaBuf, relI, out,
                   mach, ret>>

NextStr == StrTabAdd

SpecStr == InitStr /\ [][NextStr]_vars

(* C12: Data begins with a zero byte; Add("") returns 0 and leaves the     *)
(* table as it is; adding a string again returns the offset it got the     *)
(* first time and leaves the table as it is; and at every returned offset  *)
(* the table holds the string followed by a zero byte.                     *)
C12_StringTableAdd ==
    LET calls == loc.calls
        Data == f.StrTab.Data
    IN  /\ Data[1] = 0
        /\ \A i \in DOMAIN calls :
             /\ calls[i].s = <<>> =>
                  calls[i].idx = 0 /\ calls[i].after = calls[i].before
             /\ \A j \in 1..(i - 1) :
                  calls[j].s = calls[i].s =>
                    /\ calls[i].idx = calls[j].idx
                    /\ calls[i].after = calls[i].before
             /\ calls[i].idx + Len(calls[i].s) < Len(Data)
             /\ Slice(Data, calls[i].idx, Len(calls[i].s)) = calls[i].s
             /\ Data[calls[i].idx + Len(calls[i].s) + 1] = 0

(* "a" was added, then "ab", then "a" again and the empty string.          *)
C12_Witness ==
    /\ pc = "str_add"
    /\ Len(loc.calls) = 4
    /\ loc.calls[1].s = <<97>> /\ loc.calls[2].s = <<97, 98>>
    /\ loc.calls[3].s = <<97>> /\ loc.calls[4].s = <<>>
    /\ loc.calls[3].idx = 1 /\ loc.calls[2].idx = 3
    /\ f.StrTab.Data = <<0, 97, 0, 97, 98, 0>>

-----------------------------------------------------------------------------
(* SpecTwice: GenerateObject called on one module, and then called on it   *)
(* again in the same process.  The second call has new locals (compiler,   *)
(* file, symbolMap, buffers); the heap still holds the first call's        *)
(* symbols, so the second call's symbols live at other addresses.          *)

GenAgain ==
    /\ pc = "gen_done"
    /\ ret = <<>>
    /\ ret' = <<OutBytes>>
    /\ pc' = "gen_compile"
    /\ artifact' = <<>> /\ f' = <<>> /\ symbolMap' = <<>> /\ relaBuf' = <<>>
    /\ relI' = 0 /\ loc' = <<>> /\ out' = <<>>
    /\ UNCHANGED <<m, symHeap, mach>>

NextTwice == NextObj \/ GenAgain

SpecTwice == InitObj /\ [][NextTwice]_vars

-----------------------------------------------------------------------------
(* Properties of the ELF header GenerateObject writes (SpecObj).           *)

(* The name of section k as the section at e_shstrndx spells it.           *)
SectionName(b, k) ==
    CStringAt(b, Sh_offset(b, E_shstrndx(b)) + Sh_name(b, k))

-----------------------------------------------------------------------------
(* SpecAbi: the layout functions asked about one struct type: the offset   *)
(* of each field in turn, then the size and the alignment of the struct.   *)

MaxFields == 3

FieldTypes ==
    {[kind |-> "int", bits |-> 8],
     I32,
     I64,
     [kind |-> "int", bits |-> 128],
     [kind |-> "float", bits |-> 128],
     Ptr,
     [kind |-> "array", elem |-> [kind |-> "int", bits |-> 16], len |-> 3],
     [kind |-> "struct", fields |-> <<[kind |-> "int", bits |-> 8], I32>>,
      packed |-> TRUE],
     [kind |-> "struct", fields |-> <<[kind |-> "int", bits |-> 8], I64>>,
      packed |-> FALSE],
     [kind |-> "vector", elem |-> I32, len |-> 3, scalable |-> FALSE],
     [kind |-> "vector", elem |-> I32, len |-> 4, scalable |-> TRUE]}

StructTypes ==
    {[kind |-> "struct", fields |-> fs, packed |-> p] :
       fs \in UNION {[1..n -> FieldTypes] : n \in 0..MaxFields},
       p \in BOOLEAN}

InitAbi ==
    /\ pc = "abi_fields"
    /\ \E st \in StructTypes : loc = [st |-> st, offsets |-> <<>>]
    /\ f = <<>> /\ symHeap = <<>> /\ out = <<>>
    /\ m = <<>> /\ artifact = <<>> /\ symbolMap = <<>> /\ relaBuf = <<>>
    /\ relI = 0 /\ mach = <<>>
    /\ ret = <<>>

(* GetStructFieldOffset for the next field.                                *)
AbiFieldOffset ==
    /\ pc = "abi_fields"
    /\ Len(loc.offsets) < Len(loc.st.fields)
    /\ loc' = [loc EXCEPT !.offsets =
                 Append(@, GetStructFieldOffset(loc.st, Len(loc.offsets)))]
    /\ UNCHANGED <<pc, m, artifact, f, symHeap, symbolMap, relaBuf, relI, out,
                   mach, ret>>

(* SizeOf and AlignOf of the struct.                                       *)
AbiSizeOf ==
    /\ pc = "abi_fields"
    /\ Len(loc.offsets) = Len(loc.st.fields)
    /\ loc' = [size |-> SizeOf(loc.st), align |-> AlignOf(loc.st)] @@ loc
    /\ pc' = "abi_done"
    /\ UNCHANGED <<m, artifact, f, symHeap, symbolMap, relaBuf, relI, out,
                   mach, ret>>

NextAbi == AbiFieldOffset \/ AbiSizeOf

SpecAbi == InitAbi /\ [][NextAbi]_vars

(* C15: in an unpacked struct the offset of field i+1 is at least the      *)
(* offset of field i plus the size of field i, and the offset of every     *)
(* field is a multiple of the alignment of that field.                     *)
C15_FieldOffsetsOrdered ==
    ~loc.st.packed =>
      \A i \in DOMAIN loc.offsets :
         /\ loc.offsets[i] % AlignOf(loc.st.fields[i]) = 0
         /\ i > 1 =>
              loc.offsets[i] >= loc.offsets[i - 1]
                                  + SizeOf(loc.st.fields[i - 1])

(* {i8, i64, i32}: the offsets 0, 8 and 16.                                *)
C15_Witness ==
    /\ loc.st = [kind |-> "struct",
                 fields |-> <<[kind |-> "int", bits |-> 8], I64, I32>>,
                 packed |-> FALSE]
    /\ loc.offsets = <<0, 8, 16>>

(* C16: the size of a struct is at least the sum of the sizes of its       *)
(* fields, is a multiple of the alignment of the struct, and is at least   *)
(* the offset of the last field plus the size of the last field.           *)
C16_StructSize ==
    pc = "abi_done" =>
      LET n == Len(loc.st.fields)
      IN  /\ loc.size >= SumFieldSizes(loc.st.fields)
          /\ loc.size % loc.align = 0
          /\ n > 0 => loc.size >= loc.offsets[n] + SizeOf(loc.st.fields[n])

(* {i64, i8}: nine bytes of fields in a struct of sixteen.                 *)
C16_Witness ==
    /\ pc = "abi_done"
    /\ loc.st = [kind |-> "struct",
                 fields |-> <<I64, [kind |-> "int", bits |-> 8]>>,
                 packed |-> FALSE]
    /\ loc.size = 16 /\ loc.align = 8 /\ loc.offsets = <<0, 8>>

-----------------------------------------------------------------------------
(* Properties of the jump fixups (SpecFn).                                 *)

(* The targets of the jumps of fn in the order they are emitted.           *)
Edges(fn) ==
    Flatten([i \in DOMAIN Insts(fn) |->
               CASE Insts(fn)[i].op = "br" -> <<Insts(fn)[i].Target>>
                 [] Insts(fn)[i].op = "condbr" ->
                      <<Insts(fn)[i].TrueBlock, Insts(fn)[i].FalseBlock>>
                 [] Insts(fn)[i].op = "switch" ->
                      [k \in DOMAIN Insts(fn)[i].Cases |->
                         Insts(fn)[i].Cases[k].Block]
                        \o <<Insts(fn)[i].DefaultBlock>>
                 [] OTHER -> <<>>])

TargetsInList(fn) ==
    \A k \in DOMAIN Edges(fn) : Edges(fn)[k] \in DOMAIN fn.Blocks

(* The compiler as Compile hands it to compileFunction for function i.     *)
CompilerBefore(i) ==
    compileFunctions(compileGlobals([c |-> NewCompiler, symbols |-> <<>>],
                                    m.Globals, 1),
                     SubSeq(m.Functions, 1, i - 1), 1).c

(* body is fn after its blocks were emitted: one fixup per edge of fn, in  *)
(* order, each behind a jump opcode, and in text the displacement that     *)
(* leads from the end of the placeholder to the offset of the target.      *)
FixupsResolved(text, body, fn) ==
    /\ Len(body.fixups) = Len(Edges(fn))
    /\ \A k \in DOMAIN body.fixups :
         /\ body.fixups[k].target = Edges(fn)[k]
         /\ text[body.fixups[k].offset] \in {233, 132, 133}
         /\ S32At(text, body.fixups[k].offset)
              = body.blockOffsets[body.fixups[k].target]
                  - (body.fixups[k].offset + 4)

(* C17: after a successful compile, for every branch emitted (br, both     *)
(* edges of condbr, every switch case and the default) whose target is a   *)
(* block of the function, the little-endian 32-bit value at the fixup      *)
(* offset is offset(target block) - (fixup offset + 4), also in a function *)
(* that does not start at offset 0 of the text buffer.                     *)
C17_FixupDisplacement ==
    pc = "fn_done" /\ artifact.err = "" =>
      \A i \in DOMAIN m.Functions :
         TargetsInList(m.Functions[i]) =>
           FixupsResolved(artifact.artifact.TextBuffer,
                          compileBody(CompilerBefore(i), m.Functions[i]),
                          m.Functions[i])

(* C17 witness: behind another function, a three-block function whose      *)
(* second block is a switch to blocks 3, 1 and 2: the jumps of the switch  *)
(* go forward, backward and to the switch itself.                          *)
C17_Witness ==
    /\ pc = "fn_done" /\ artifact.err = ""
    /\ Len(m.Functions) = 2
    /\ Edges(m.Functions[2]) = <<2, 3, 1, 2>>
    /\ LET body == compileBody(CompilerBefore(2), m.Functions[2])
       IN  /\ body.blockOffsets[1] > 0
           /\ S32At(artifact.artifact.TextBuffer, body.fixups[2].offset) > 0
           /\ S32At(artifact.artifact.TextBuffer, body.fixups[3].offset) < 0
           /\ S32At(artifact.artifact.TextBuffer, body.fixups[4].offset) < 0

(* C18: when a branch targets a block without a recorded offset (a block   *)
(* that is not in the function's block list), compilation reports an       *)
(* error: no Artifact is returned with the zero placeholder still in       *)
(* place.                                                                  *)
C18_MissingTargetIsError ==
    (/\ pc = "fn_done"
     /\ \E i \in DOMAIN m.Functions : ~TargetsInList(m.Functions[i]))
      => artifact.err # ""

-----------------------------------------------------------------------------
(* Properties of alloca (SpecFn).                                          *)

(* The alloca instructions of the module m.                                *)
Allocas ==
    {inst \in UNION {{Insts(m.Functions[i])[j] :
                        j \in DOMAIN Insts(m.Functions[i])} :
                     i \in DOMAIN m.Functions} : inst.op = "alloca"}

(* C19: when every alloca has a constant or an absent element count (and   *)
(* no other instruction is unencodable), allocaOp finds the storage offset *)
(* recorded for it: Compile does not fail, and not with 'unknown alloca    *)
(* instruction'.                                                           *)
C19_AllocaOffsetRecorded ==
    (/\ pc = "fn_done"
     /\ Allocas # {}
     /\ ~HasUnencodable)
      => artifact.err = ""

-----------------------------------------------------------------------------
(* Properties of the file layout (SpecObj).                                *)

Sh_addralign(b, k) == U32At(b, ShdrAt(b, k) + 48)

(* Sections j and k of the file b share no byte.                           *)
Disjoint(b, j, k) ==
    \/ Sh_size(b, j) = 0
    \/ Sh_size(b, k) = 0
    \/ Sh_offset(b, j) + Sh_size(b, j) <= Sh_offset(b, k)
    \/ Sh_offset(b, k) + Sh_size(b, k) <= Sh_offset(b, j)

(* The file b, made by the Write calls writes, holds the sections secs as  *)
(* its headers say; at lists the position of each content's Write call.    *)
LaidOut(b, secs, writes, at) ==
    /\ E_shnum(b) = Len(secs)
    /\ \A k \in 0..(Len(secs) - 1) :
         /\ at[k + 1] = Sh_offset(b, k)
         /\ Slice(b, Sh_offset(b, k), Sh_size(b, k)) = secs[k + 1].Content
         /\ Sh_offset(b, k) >= 64
         /\ Sh_addralign(b, k) # 0 => Sh_offset(b, k) % Sh_addralign(b, k) = 0
         /\ Slice(b, ShdrAt(b, k), 64)
              = writes[Len(writes) - Len(secs) + k + 1]
         /\ \A j \in 0..(k - 1) : Disjoint(b, j, k)
    /\ E_shoff(b) = Len(Flatten(SubSeq(writes, 1, Len(writes) - Len(secs))))

(* C20: in the file written by WriteTo the content of each section is      *)
(* written at the position its header records as sh_offset, the section    *)
(* header table starts at e_shoff, every sh_offset is at least 64 and a    *)
(* multiple of the section's sh_addralign when that is not zero, and the   *)
(* byte ranges of the sections do not overlap.                             *)
C20_ContentAtOffsets ==
    pc = "gen_done" =>
      LaidOut(OutBytes, f.Sections, out,
              contentPositions(f.Sections, 64, Len(out[1]), 1))

(* C20 witness: a written file with .text, .data and .rela.text in which   *)
(* .data does not begin where .text ends: padding was written between.     *)
C20_Witness ==
    /\ pc = "gen_done"
    /\ loc.dataSec # NIL /\ "relaSec" \in DOMAIN loc
    /\ Sh_size(OutBytes, 1) > 0 /\ Sh_size(OutBytes, 2) > 0
    /\ Sh_offset(OutBytes, 2) > Sh_offset(OutBytes, 1) + Sh_size(OutBytes, 1)
    /\ Sh_addralign(OutBytes, 1) = 16 /\ Sh_addralign(OutBytes, 2) = 8

-----------------------------------------------------------------------------
(* Properties of the arithmetic lowering (SpecFn).                         *)

(* The ModRM byte of the immediate forms of op on rax.                     *)
ImmModRM(op) ==
    CASE op = "add" -> 192 [] op = "sub" -> 232 [] op = "and" -> 224
      [] op = "or" -> 200 [] op = "xor" -> 240

(* The blocks <<i, b>> of m that begin with an add, sub, and, or, xor of   *)
(* the i32 argument and a constant.                                        *)
ArithBlocks ==
    {ib \in UNION {{<<i, b>> : b \in DOMAIN m.Functions[i].Blocks} :
                   i \in DOMAIN m.Functions} :
       LET inst == m.Functions[ib[1]].Blocks[ib[2]].Instructions[1]
       IN  /\ inst.op \in {"add", "sub", "and", "or", "xor"}
           /\ inst.ops[2].k = "const"}

(* In text, the block at offset at begins with the load of the 4-byte      *)
(* left operand into eax (8B 85 disp32); behind it stands op rax, v in     *)
(* the form the value v asks for, and behind that the store of eax.        *)
ImmediateForm(text, at, op, v) ==
    /\ text[at + 1] = 139 /\ text[at + 2] = 133
    /\ text[at + 7] = 72
    /\ text[at + 9] = ImmModRM(op)
    /\ IF v >= -128 /\ v <= 127
       THEN /\ text[at + 8] = 131
            /\ text[at + 10] = (IF v >= 0 THEN v ELSE v + 256)
            /\ text[at + 11] = 137
       ELSE /\ text[at + 8] = 129
            /\ S32At(text, at + 9) = v
            /\ text[at + 14] = 137

(* C21: for add, sub, and, or and xor with a constant right operand c the  *)
(* lowering emits the imm8 form (83 and one immediate byte) exactly when   *)
(* -128 <= c <= 127, and the imm32 form (81 and four immediate bytes)      *)
(* otherwise.                                                              *)
C21_ImmediateWidth ==
    pc = "fn_done" /\ artifact.err = "" =>
      \A ib \in ArithBlocks :
         ImmediateForm(
           artifact.artifact.TextBuffer,
           compileBody(CompilerBefore(ib[1]),
                       m.Functions[ib[1]]).blockOffsets[ib[2]],
           m.Functions[ib[1]].Blocks[ib[2]].Instructions[1].op,
           m.Functions[ib[1]].Blocks[ib[2]].Instructions[1].ops[2].v)

(* C21 witness: a compiled function whose last block begins with           *)
(* xor %a, 128, lowered to 48 81 F0 80 00 00 00.                           *)
C21_Witness ==
    /\ pc = "fn_done" /\ artifact.err = ""
    /\ \E ib \in ArithBlocks :
         LET inst == m.Functions[ib[1]].Blocks[ib[2]].Instructions[1]
             at == compileBody(CompilerBefore(ib[1]),
                               m.Functions[ib[1]]).blockOffsets[ib[2]]
         IN  /\ inst.op = "xor" /\ inst.ops[2].v = 128
             /\ ib[2] = 3
             /\ Slice(artifact.artifact.TextBuffer, at + 6, 7)
                  = <<72, 129, 240, 128, 0, 0, 0>>

-----------------------------------------------------------------------------
(* WriteTo on a sink that fails: NewFile, AddSection and AddSymbol calls,  *)
(* then one WriteTo whose sink returns an error from its failAt-th Write   *)
(* call, or from none (failAt = 0).  ret keeps what the sink was set to    *)
(* do and the error WriteTo returned.                                      *)

MaxSinkSymbols == 1

SinkAddSymbol == Len(f.Symbols) < MaxSinkSymbols /\ FileAddSymbol

SinkWriteTo ==
    /\ pc = "file_build"
    /\ \E failAt \in 0..Len(WriteTo(f, symHeap).writes) :
         LET r == WriteToSink(f, symHeap, failAt)
         IN  /\ f' = r.f /\ symHeap' = r.heap /\ out' = r.writes
             /\ ret' = [failAt |-> failAt, err |-> r.err]
             /\ pc' = IF r.err = "" THEN "file_written" ELSE "file_failed"
    /\ UNCHANGED <<m, artifact, symbolMap, relaBuf, relI, loc, mach>>

(* WriteTo called once more on the File that was written, on a new sink    *)
(* that accepts every write; loc keeps the bytes of the first call and the *)
(* number of sections it left.                                             *)
SinkWriteAgain ==
    /\ pc = "file_written"
    /\ LET r == WriteTo(f, symHeap)
       IN  f' = r.f /\ symHeap' = r.heap /\ out' = r.writes
    /\ loc' = [first |-> Flatten(out), sections |-> Len(f.Sections)]
    /\ pc' = "file_rewritten"
    /\ UNCHANGED <<m, artifact, symbolMap, relaBuf, relI, mach, ret>>

NextSink == FileAddSection \/ SinkAddSymbol \/ SinkWriteTo \/ SinkWriteAgain

SpecSink == InitFile /\ [][NextSink]_vars

(* C22: when the sink returns an error from a Write call during WriteTo    *)
(* (header, padding, content or section header), WriteTo returns that      *)
(* error and makes no further Write call; on a sink that never fails it    *)
(* returns nil.                                                            *)
C22_SinkErrorStops ==
    pc \in {"file_written", "file_failed"} =>
      IF ret.failAt = 0 THEN ret.err = "" /\ pc = "file_written"
      ELSE /\ ret.err = "sink" /\ pc = "file_failed"
           /\ Len(out) = ret.failAt

(* C30: WriteTo seals the File: a second WriteTo on the same File adds no  *)
(* further .shstrtab, .strtab and .symtab sections and writes the same     *)
(* bytes as the first.                                                     *)
C30_SecondWriteToSame ==
    pc = "file_rewritten" =>
      /\ Len(f.Sections) = loc.sections
      /\ OutBytes = loc.first

(* C22 witness: the sink failed on a padding write (1 to 7 zero bytes      *)
(* before a section), after the header and some content went through.     *)
C22_Witness ==
    /\ pc = "file_failed" /\ ret.err = "sink"
    /\ Len(out) = ret.failAt /\ Len(out) > 2
    /\ Len(out[Len(out)]) \in 1..7
    /\ \A i \in DOMAIN out[Len(out)] : out[Len(out)][i] = 0
    /\ Len(out[1]) = 64

-----------------------------------------------------------------------------
(* SpecData: modules of global variables only, compiled by Compile.        *)

MaxGlobals == 2

I8 == [kind |-> "int", bits |-> 8]
I16 == [kind |-> "int", bits |-> 16]

ConstZero(ty) == [k |-> "zero", ty |-> ty]
ConstArray(elemTy, elems) ==
    [k |-> "array", ty |-> [kind |-> "array", elem |-> elemTy,
                            len |-> Len(elems)],
     Elements |-> elems]
ConstStruct(fields) ==
    [k |-> "struct",
     ty |-> [kind |-> "struct", packed |-> FALSE,
             fields |-> [i \in DOMAIN fields |-> fields[i].ty]],
     Fields |-> fields]

(* Initializers: integers, zeros, arrays, structs and nestings of them.    *)
Initializers ==
    {ConstInt(I8, 200), ConstInt(I32, -2), ConstInt(I64, 258),
     ConstZero([kind |-> "array", elem |-> I16, len |-> 3]),
     ConstArray(I32, <<ConstInt(I32, 1), ConstInt(I32, 2)>>),
     ConstStruct(<<ConstInt(I8, 1), ConstInt(I32, 2)>>),
     ConstStruct(<<ConstInt(I64, 1), ConstInt(I8, 2)>>),
     ConstArray(ConstStruct(<<ConstInt(I32, 0), ConstInt(I8, 0)>>).ty,
                <<ConstStruct(<<ConstInt(I32, 3), ConstInt(I8, 4)>>),
                  ConstStruct(<<ConstInt(I32, 5), ConstInt(I8, 6)>>)>>),
     ConstStruct(<<ConstInt(I8, 1),
                   ConstArray(I16, <<ConstInt(I16, 2), ConstInt(I16, 3)>>),
                   ConstStruct(<<ConstInt(I64, 4)>>)>>)}

(* What a global is declared with: a type alone, or an initializer.        *)
GlobalDecls ==
    {[Type |-> ty, Initializer |-> Nil] : ty \in {I32, I64}}
      \cup {[Type |-> init.ty, Initializer |-> init] : init \in Initializers}

(* The module whose i-th global is called g<i> and declared as decls[i].   *)
DataModule(decls) ==
    [Name |-> <<109>>,
     Globals |-> [i \in DOMAIN decls |->
                    [Name |-> <<103, 48 + i>>] @@ decls[i]],
     Functions |-> <<>>]

InitData ==
    /\ pc = "data_compile"
    /\ \E decls \in UNION {[1..n -> GlobalDecls] : n \in 1..MaxGlobals} :
         m = DataModule(decls)
    /\ artifact = <<>> /\ f = <<>> /\ symHeap = <<>> /\ symbolMap = <<>>
    /\ relaBuf = <<>> /\ relI = 0 /\ loc = <<>> /\ out = <<>> /\ mach = <<>>
    /\ ret = <<>>

DataCompile ==
    /\ pc = "data_compile"
    /\ artifact' = Compile(m)
    /\ pc' = "data_done"
    /\ UNCHANGED <<m, f, symHeap, symbolMap, relaBuf, relI, loc, out, mach,
                   ret>>

NextData == DataCompile

SpecData == InitData /\ [][NextData]_vars

-----------------------------------------------------------------------------
(* Properties of the data buffer (SpecData).                               *)

(* The bytes compileGlobal emits for g into an empty (so aligned) buffer:  *)
(* the global's own bytes.                                                 *)
OwnBytes(g) == compileGlobal(NewCompiler, g).data

(* C24: the symbol of every global has as offset the 8-byte aligned        *)
(* position of the data buffer where the global's own bytes begin, and as  *)
(* size the number of those bytes, padding excluded.                       *)
C24_GlobalSymbolAtOwnBytes ==
    pc = "data_done" /\ artifact.err = "" =>
      \A i \in DOMAIN m.Globals :
         LET sym == artifact.artifact.Symbols[i]
             own == OwnBytes(m.Globals[i])
         IN  /\ sym.Name = m.Globals[i].Name
             /\ sym.Offset % 8 = 0
             /\ sym.Size = Len(own)
             /\ Slice(artifact.artifact.DataBuffer, sym.Offset, Len(own))
                  = own


(* Where the bytes of global i begin in the data buffer of artifact a, and *)
(* how many were emitted for it: Compile takes the symbol's offset before  *)
(* compileGlobal aligns and its end after it.                              *)
EmittedAt(a, i) == AlignUp(a.Symbols[i].Offset, 8)
EmittedLen(a, i) == a.Symbols[i].Offset + a.Symbols[i].Size - EmittedAt(a, i)

(* C27: for every constant initializer (integer, zero, array, struct,      *)
(* nested) emitConstant appends SizeOf(type) bytes, so that element j of   *)
(* an array initializer lies j * SizeOf(element type) bytes into it.       *)
C27_InitializerFillsSizeOf ==
    pc = "data_done" /\ artifact.err = "" =>
      \A i \in DOMAIN m.Globals :
         LET init == m.Globals[i].Initializer
             a == artifact.artifact
         IN  init.k # "nil" =>
               /\ EmittedLen(a, i) = SizeOf(init.ty)
               /\ init.k = "array" =>
                    \A j \in DOMAIN init.Elements :
                       LET own == emitConstant(NewCompiler,
                                               init.Elements[j]).data
                       IN  Slice(a.DataBuffer,
                                 EmittedAt(a, i)
                                   + (j - 1) * SizeOf(init.ty.elem),
                                 Len(own)) = own

-----------------------------------------------------------------------------
(* Properties of the frame layout (SpecFn).                                *)

(* The values of fn that get a slot, and the size of the slot of v.        *)
SlotValues(fn) ==
    fn.Arguments \o SelectSeq(Insts(fn), LAMBDA x : x.ty.kind # "void")

SlotSize(v) ==
    LET sz == IF v.k = "inst" /\ v.op = "alloca" THEN 8 ELSE SizeOf(v.ty)
    IN  IF sz < 8 THEN 8 ELSE sz

(* C25: after the frame layout of a function the slots of distinct values  *)
(* are pairwise disjoint ranges [off, off + max(size, 8)), every off is a  *)
(* multiple of the slot size, all slots lie inside [-frame_size, 0), and   *)
(* frame_size is a multiple of 16.                                         *)
C25_FrameSlots ==
    pc = "fn_done" =>
      \A i \in DOMAIN m.Functions :
         LET fn == m.Functions[i]
             vals == SlotValues(fn)
             off(x) == SlotOf(fn, vals[x])
         IN  /\ (FrameSize(fn) % 16) = 0
             /\ \A x \in DOMAIN vals :
                   /\ (off(x) % SlotSize(vals[x])) = 0
                   /\ off(x) >= -FrameSize(fn)
                   /\ off(x) + SlotSize(vals[x]) <= 0
             /\ \A x, y \in DOMAIN vals :
                   Key(vals[x]) # Key(vals[y]) =>
                     \/ off(x) + SlotSize(vals[x]) <= off(y)
                     \/ off(y) + SlotSize(vals[y]) <= off(x)

(* C25 witness: f(i32, ptr, double) with a 16-byte value: the arguments    *)
(* are at -8, -16, -24, the i128 at -48 after 8 bytes of alignment, in a   *)
(* frame of 48 bytes.                                                      *)
C25_Witness ==
    /\ pc = "fn_done"
    /\ \E i \in DOMAIN m.Functions :
         LET fn == m.Functions[i]
         IN  /\ Len(fn.Arguments) = 3
             /\ \E x \in DOMAIN SlotValues(fn) :
                  /\ SlotValues(fn)[x].ty = I128
                  /\ SlotOf(fn, SlotValues(fn)[x]) = -48
             /\ SlotOf(fn, ArgX) = -24
             /\ FrameSize(fn) = 48

-----------------------------------------------------------------------------
(* Properties of the function symbols (SpecObj).                           *)

(* The function symbols of artifact a, in the order Compile appended them. *)
FuncSymbols(a) == SelectSeq(a.Symbols, LAMBDA sym : sym.IsFunc)

(* The functions of m that have blocks, in module order.                   *)
DefinedFunctions == SelectSeq(m.Functions, LAMBDA fn : Len(fn.Blocks) > 0)

(* C28: the function symbols tile the text buffer: the first starts at 0,  *)
(* each next one starts where the one before ends, and the last ends at    *)
(* the end of the text; there is one per function with blocks, in module   *)
(* order, so a function without blocks contributes no bytes.               *)
C28_FunctionsTileText ==
    pc \notin {"gen_compile", "gen_failed"} =>
      LET a == artifact.artifact
          fs == FuncSymbols(a)
          end(k) == IF k = 0 THEN 0 ELSE fs[k].Offset + fs[k].Size
      IN  /\ Len(fs) = Len(DefinedFunctions)
          /\ \A k \in DOMAIN fs :
                /\ fs[k].Name = DefinedFunctions[k].Name
                /\ fs[k].Offset = end(k - 1)
                /\ fs[k].Size
                     = Len(compileFunction(NewCompiler,
                                           DefinedFunctions[k]).text)
          /\ end(Len(fs)) = Len(a.TextBuffer)

(* C28 witness: h is defined before f; h starts at 0, f starts where h     *)
(* ends and ends with the text.                                            *)
C28_Witness ==
    /\ pc = "gen_done"
    /\ Len(m.Functions) = 2
    /\ m.Functions[1].Name = <<104>>
    /\ LET fs == FuncSymbols(artifact.artifact)
       IN  /\ Len(fs) = 2
           /\ fs[1].Offset = 0 /\ fs[1].Size > 0
           /\ fs[2].Offset = fs[1].Size /\ fs[2].Size > 0
           /\ fs[2].Offset + fs[2].Size = Len(artifact.artifact.TextBuffer)

-----------------------------------------------------------------------------
(* What the fixup pass leaves alone (SpecFn).                              *)

(* The positions (1-based) of the placeholders of the fixups of body.      *)
Placeholders(body) ==
    UNION {(body.fixups[k].offset + 1)..(body.fixups[k].offset + 4) :
             k \in DOMAIN body.fixups}

(* text agrees with the text of body, the compiler as it was before the    *)
(* fixup pass of a function, everywhere but in the placeholders.           *)
OnlyPlaceholdersChanged(text, body) ==
    \A j \in 1..Len(body.text) :
       j \notin Placeholders(body) => text[j] = body.text[j]

(* C29: the fixup pass of a function changes nothing but the four          *)
(* placeholder bytes of that function's own branches: the bytes of the     *)
(* functions before it, the opcode bytes and the placeholders of the       *)
(* relocations (rel32 of a call, disp32 of a RIP-relative lea) are in the  *)
(* artifact as they were emitted, the latter zero.                         *)
C29_FixupsTouchOnlyPlaceholders ==
    pc = "fn_done" /\ artifact.err = "" =>
      /\ \A i \in DOMAIN m.Functions :
            OnlyPlaceholdersChanged(
              artifact.artifact.TextBuffer,
              compileBody(CompilerBefore(i), m.Functions[i]))
      /\ \A r \in DOMAIN artifact.artifact.Relocations :
            Slice(artifact.artifact.TextBuffer,
                  artifact.artifact.Relocations[r].Offset, 4) = Zeros(4)

(* C29 witness: behind another function, a function with a backward        *)
(* branch (a displacement that is not zero) and a call: the call's rel32   *)
(* is zero, the branch's opcode is in place.                               *)
C29_Witness ==
    /\ pc = "fn_done" /\ artifact.err = ""
    /\ Len(m.Functions) = 2
    /\ Len(artifact.artifact.Relocations) = 1
    /\ artifact.artifact.Relocations[1].Type = R_X86_64_PLT32
    /\ LET body == compileBody(CompilerBefore(2), m.Functions[2])
           T == artifact.artifact.TextBuffer
       IN  /\ \E k \in DOMAIN body.fixups :
                /\ S32At(T, body.fixups[k].offset) < 0
                /\ T[body.fixups[k].offset] = 233
           /\ T[artifact.artifact.Relocations[1].Offset] = 232
           /\ S32At(T, artifact.artifact.Relocations[1].Offset) = 0

=============================================================================
